---- MODULE Spec2Model ----
(***************************************************************************)
(* Terraform lifecycle manager of constellaxion-cli.                       *)
(*                                                                         *)
(* The model follows constellaxion/terraform/manager.py (TerraformManager: *)
(* workspace preparation, apply_layer, destroy_layer, bootstrap, destroy,  *)
(* list_resources), constellaxion/terraform/core/executor.py               *)
(* (TerraformExecutor), core/config.py (TerraformConfig), core/binary.py   *)
(* (TerraformBinary), services/terraform_service.py (TerraformService) and *)
(* the older constellaxion/services/terraform_manager.py + bootstrap.py.   *)
(* The terraform binary and the cloud are the environment: every command   *)
(* and every probe has a nondeterministic outcome.                       *)
(***************************************************************************)
EXTENDS Integers, Sequences, FiniteSets, TLC

VARIABLES
    op,         \* the top-level operation last invoked, "none" before the first
    pc,         \* position inside the top-level operation
    lpc,        \* position inside the current layer operation, "none" outside
    call,       \* arguments of the current layer operation
    ws,         \* workspace directories on disk, by workspace name
    cloud,      \* live cloud resources: bucket, lock table, IAM role
    remote,     \* iam layer state kept in the backend bucket
    layerRes,   \* result of the last layer operation
    trace,      \* calls and terraform commands of the current invocation
    result,     \* result of the last top-level operation
    prep,       \* bookkeeping of the current workspace preparation
    resources,  \* destroy_layer: addresses captured by state list;
                \* _list_aws_resources: the entries collected so far
    destroyed,  \* _destroy_aws: destroyed_resources accumulated so far
    obs,        \* what the invocation has observed: probes, layer results
    xin,        \* executor check: inputs of one execute call
    xout,       \* executor check: what that call did
    nin,        \* initialization check: workspace and backend config
    nout,       \* initialization check: the decision taken
    pin,        \* pure functions: the function applied and its arguments
    pout,       \* pure functions: what it returned
    tfbin,      \* binary cache: the cache directory and the calls made on it
    conc,       \* concurrent callers: the shared workspace and each caller's position
    applied     \* history: the bucket and lock table that are live were created
                \* by an apply of the backend layer

vars == <<op, pc, lpc, call, ws, cloud, remote, layerRes, trace, result,
          prep, resources, destroyed, obs, xin, xout, nin, nout, pin, pout,
          tfbin, conc, applied>>

mgrVars == <<op, pc, lpc, call, ws, cloud, remote, layerRes, trace, result,
             prep, resources, destroyed, obs, applied>>
execVars == <<xin, xout>>
needVars == <<nin, nout>>
pureVars == <<pin, pout>>
binVars == <<tfbin>>
concVars == <<conc>>

-----------------------------------------------------------------------------
(* Layers, workspace names and files                                       *)

AWS_BACKEND == "basic/00-backend"
AWS_IAM == "basic/01-iam"
TerraformLayer == {AWS_BACKEND, AWS_IAM}

\* Variant: the directory is named after the part before the "/".
workspace_name_Prefix(layer) == "basic"

\* self.value.replace("/", "_")
workspace_name(layer) ==
    IF layer = AWS_BACKEND THEN "basic_00-backend" ELSE "basic_01-iam"

Workspaces == {workspace_name(l) : l \in TerraformLayer}

BACKEND_FILE == "_backend.tf"
VARS_FILE == "terraform.tfvars.json"
TF_CACHE == ".terraform"

\* Files shipped in a layer's source directory.
SourceBundle(layer) ==
    IF layer = AWS_BACKEND
    THEN {"main.tf", "variables.tf", "README.md"}
    ELSE {"main.tf", "outputs.tf", "README.md"}

\* glob("*.tf")
GlobTf(names) ==
    names \cap {"main.tf", "variables.tf", "outputs.tf", BACKEND_FILE}

ACCOUNT == "123456789012"
REGION == "us-east-1"

bucket_name == "constellaxion-tf-state-" \o ACCOUNT \o "-" \o REGION
lock_table == bucket_name \o "-locks"

NoConfig == <<>>
backend_config ==
    [bucket |-> bucket_name, region |-> REGION, dynamodb_table |-> lock_table]
iam_backend_config ==
    [bucket |-> bucket_name, region |-> REGION, dynamodb_table |-> lock_table,
     key |-> "iam/terraform.tfstate"]

ROLE_ADDRESS == "aws_iam_role.constellaxion_admin"
BackendAddresses ==
    <<"aws_s3_bucket.terraform_state", "aws_dynamodb_table.terraform_locks">>
IamAddresses == <<ROLE_ADDRESS, "aws_iam_role_policy_attachment.admin">>

-----------------------------------------------------------------------------
(* Backend file content: a sequence of text pieces; NL is a line break.     *)

NL == "\n"
TAB == "\t"
Whitespace == {NL, " ", TAB, ""}

RECURSIVE LStrip(_)
LStrip(s) ==
    IF s = <<>> THEN <<>>
    ELSE IF Head(s) \in Whitespace THEN LStrip(Tail(s)) ELSE s

RECURSIVE RStrip(_)
RStrip(s) ==
    IF s = <<>> THEN <<>>
    ELSE IF s[Len(s)] \in Whitespace THEN RStrip(SubSeq(s, 1, Len(s) - 1)) ELSE s

\* str.strip()
Strip(s) == RStrip(LStrip(s))

Get(cfg, k, default) == IF k \in DOMAIN cfg THEN cfg[k] ELSE default

ValueError == <<"ValueError">>

\* Variant: the dynamodb_table line is written whether or not a table is given.
_generate_backend_tf_AlwaysTable(cfg) ==
    IF "bucket" \in DOMAIN cfg /\ "region" \in DOMAIN cfg
    THEN <<"terraform {", "\n",
           "  backend \"s3\" {", "\n",
           "    bucket = \"" \o cfg["bucket"] \o "\"", "\n",
           "    key    = \"" \o (IF "key" \in DOMAIN cfg THEN cfg["key"]
                                 ELSE "terraform.tfstate") \o "\"", "\n",
           "    region = \"" \o cfg["region"] \o "\"", "\n",
           "    dynamodb_table = \"" \o (IF "dynamodb_table" \in DOMAIN cfg
                                          THEN cfg["dynamodb_table"] ELSE "") \o "\"", "\n",
           "  }", "\n", "}", "\n">>
    ELSE <<"ValueError">>

_generate_backend_tf(cfg) ==
    IF "bucket" \in DOMAIN cfg /\ "region" \in DOMAIN cfg
    THEN <<"terraform {", NL,
           "  backend \"s3\" {", NL,
           "    bucket = \"" \o cfg["bucket"] \o "\"", NL,
           "    key    = \"" \o Get(cfg, "key", "terraform.tfstate") \o "\"", NL,
           "    region = \"" \o cfg["region"] \o "\"", NL>>
         \o (IF Get(cfg, "dynamodb_table", "") # ""
             THEN <<"    dynamodb_table = \"" \o cfg["dynamodb_table"] \o "\"", NL>>
             ELSE <<>>)
         \o <<"  }", NL, "}", NL>>
    ELSE ValueError

-----------------------------------------------------------------------------
(* Workspace directories                                                   *)

AbsentWs == [exists |-> FALSE, files |-> {}, backend |-> <<>>, tfstate |-> <<>>]

\* Variant: the .terraform cache is not looked at.
_workspace_exists_and_valid_NoCache(w) ==
    IF ~w.exists THEN FALSE
    ELSE IF GlobTf(w.files) = {} THEN FALSE
    ELSE TRUE

_workspace_exists_and_valid(w) ==
    IF ~w.exists THEN FALSE
    ELSE IF TF_CACHE \notin w.files THEN FALSE
    ELSE IF GlobTf(w.files) = {} THEN FALSE
    ELSE TRUE

\* Variant: the two texts are compared as they are, without strip().
_backend_config_changed_Exact(w, cfg) ==
    IF cfg = NoConfig THEN BACKEND_FILE \in w.files
    ELSE IF BACKEND_FILE \notin w.files THEN TRUE
    ELSE IF _generate_backend_tf(cfg) = ValueError THEN TRUE
    ELSE w.backend # _generate_backend_tf(cfg)

\* Variant: without an expected config the backend file is not looked for.
_backend_config_changed_OnlyExpected(w, cfg) ==
    IF cfg = NoConfig THEN FALSE
    ELSE IF BACKEND_FILE \notin w.files THEN TRUE
    ELSE IF _generate_backend_tf(cfg) = ValueError THEN TRUE
    ELSE Strip(w.backend) # Strip(_generate_backend_tf(cfg))

_backend_config_changed(w, cfg) ==
    IF cfg = NoConfig THEN BACKEND_FILE \in w.files
    ELSE IF BACKEND_FILE \notin w.files THEN TRUE
    ELSE IF _generate_backend_tf(cfg) = ValueError THEN TRUE
    ELSE Strip(w.backend) # Strip(_generate_backend_tf(cfg))

\* The workspace's .tf files are those glob("*.tf") finds in the source
\* directory of some layer.
CopiedFromBundle(w) ==
    \E layer \in TerraformLayer :
        GlobTf(w.files) \ {BACKEND_FILE} = GlobTf(SourceBundle(layer))

\* Variant: the workspace's files are compared with the source bundle.
_terraform_files_stale_Compared(w) == ~CopiedFromBundle(w)

\* "For now, we'll assume files are never stale once copied"
_terraform_files_stale(w) == FALSE

_needs_full_initialization(w, cfg) ==
    IF ~_workspace_exists_and_valid(w) THEN TRUE
    ELSE IF _backend_config_changed(w, cfg) THEN TRUE
    ELSE IF _terraform_files_stale(w) THEN TRUE
    ELSE FALSE

\* Variant: the directory is not removed first, the copy lands on top of it.
_prepare_clean_workspace_NoRmtree(layer, cfg) ==
    [exists  |-> TRUE,
     files   |-> ws[workspace_name(layer)].files \cup GlobTf(SourceBundle(layer))
                 \cup (IF cfg # NoConfig /\ _generate_backend_tf(cfg) # ValueError
                       THEN {BACKEND_FILE} ELSE {}),
     backend |-> IF cfg # NoConfig /\ _generate_backend_tf(cfg) # ValueError
                 THEN _generate_backend_tf(cfg) ELSE ws[workspace_name(layer)].backend,
     tfstate |-> ws[workspace_name(layer)].tfstate]

\* Variant: the backend file is left for later, only the bundle is copied.
_prepare_clean_workspace_BundleOnly(layer, cfg) ==
    [exists  |-> TRUE,
     files   |-> GlobTf(SourceBundle(layer)),
     backend |-> <<>>,
     tfstate |-> <<>>]

\* rmtree, mkdir, copy the *.tf of the source bundle, write _backend.tf
_prepare_clean_workspace(layer, cfg) ==
    [exists  |-> TRUE,
     files   |-> GlobTf(SourceBundle(layer))
                 \cup (IF cfg # NoConfig /\ _generate_backend_tf(cfg) # ValueError
                       THEN {BACKEND_FILE} ELSE {}),
     backend |-> IF cfg # NoConfig /\ _generate_backend_tf(cfg) # ValueError
                 THEN _generate_backend_tf(cfg) ELSE <<>>,
     tfstate |-> <<>>]

\* Variant: no finally block, the file stays.
UnlinkVars_Forgotten(w) == w

\* vars_file.unlink() of the finally blocks
UnlinkVars(w) == [w EXCEPT !.files = @ \ {VARS_FILE}]

\* open(vars_file, 'w'); json.dump
WriteVarsFile(w) == [w EXCEPT !.files = @ \cup {VARS_FILE}]

-----------------------------------------------------------------------------
(* Results                                                                 *)

\* TerraformResult of a layer operation; raised = the call raised instead.
LayerResult(success, raised, message, destroyed_resources, outputs) ==
    [success |-> success, raised |-> raised, message |-> message,
     destroyed_resources |-> destroyed_resources, outputs |-> outputs]

NoLayerRes == LayerResult(FALSE, FALSE, "", <<>>, "none")
Raised(message) == LayerResult(FALSE, TRUE, message, <<>>, "none")

\* TerraformResult of a top-level operation.
TerraformResult(success, message, cfg, destroyed_resources, error) ==
    [success |-> success, message |-> message, backend_config |-> cfg,
     destroyed_resources |-> destroyed_resources, error |-> error]

NoResult == TerraformResult(FALSE, "", NoConfig, <<>>, "")

NoCall == [kind |-> "none", layer |-> AWS_BACKEND, cfg |-> NoConfig, force_clean |-> FALSE]
NoPrep == [needsFull |-> FALSE, inits |-> 0, syncs |-> 0, wipes |-> 0,
           lastInit |-> "none", syncResult |-> "none", before |-> AbsentWs]
NoObs == [bucket |-> "none", table |-> "none", backend |-> "none", role |-> "none",
          inState |-> FALSE, iam_result |-> "none", backend_result |-> "none",
          removed |-> <<>>]

Event(e, l, a, r) == [e |-> e, l |-> l, a |-> a, r |-> r]

-----------------------------------------------------------------------------
(* The terraform binary, as the executor's callers see it                  *)

W == workspace_name(call.layer)

\* A command ends with exit code 0 ("ok"), with another exit code ("fail"),
\* or execute raises before or instead of running it ("raise": validation,
\* binary download).  A workspace with an s3 backend needs the bucket.
Outcomes(w) ==
    IF BACKEND_FILE \in w.files /\ ~cloud.bucket
    THEN {"fail", "raise"} ELSE {"ok", "fail", "raise"}

\* Where the workspace's terraform state lives.
UsesRemote(w) == BACKEND_FILE \in w.files
TfState(w) == IF UsesRemote(w) THEN remote ELSE w.tfstate

LayerAddresses(layer) == IF layer = AWS_BACKEND THEN BackendAddresses ELSE IamAddresses

InSeq(x, s) == \E i \in 1..Len(s) : s[i] = x

\* Cloud after a successful apply / destroy of a layer with state st.
CloudAfterApply(layer) ==
    IF layer = AWS_BACKEND
    THEN [cloud EXCEPT !.bucket = TRUE, !.table = TRUE]
    ELSE [cloud EXCEPT !.role = TRUE]

CloudAfterDestroy(st) ==
    [bucket |-> cloud.bucket /\ ~InSeq(BackendAddresses[1], st),
     table  |-> cloud.table /\ ~InSeq(BackendAddresses[2], st),
     role   |-> cloud.role /\ ~InSeq(ROLE_ADDRESS, st)]

\* Write the state st of workspace w back (local file or bucket).
WsWithState(w, st) == IF UsesRemote(w) THEN w ELSE [w EXCEPT !.tfstate = st]
RemoteWithState(w, st, cl) ==
    IF ~cl.bucket THEN <<>> ELSE IF UsesRemote(w) THEN st ELSE remote

-----------------------------------------------------------------------------
(* Layer operations of TerraformManager: _prepare_workspace_optimized,     *)
(* apply_layer, destroy_layer                                              *)

InManager == op \in {"bootstrap", "destroy", "list"}

\* Where the caller of _prepare_workspace_optimized goes on: apply_layer and
\* destroy_layer write the variables file, _list_aws_iam_resources lists.
AfterPrepare == IF call.kind = "list" THEN "list_state" ELSE "write_vars"

\* Decision of _prepare_workspace_optimized and, for a full
\* initialization, _prepare_clean_workspace.
Prepare ==
    /\ InManager /\ lpc = "prepare"
    /\ LET full == call.force_clean \/ _needs_full_initialization(ws[W], call.cfg)
       IN IF full
          THEN /\ ws' = [ws EXCEPT ![W] = _prepare_clean_workspace(call.layer, call.cfg)]
               /\ prep' = [NoPrep EXCEPT !.needsFull = TRUE, !.wipes = 1, !.before = ws[W]]
               /\ IF call.cfg # NoConfig /\ _generate_backend_tf(call.cfg) = ValueError
                  THEN /\ lpc' = "done"
                       /\ layerRes' = Raised("ValueError")
                  ELSE /\ lpc' = "init_full"
                       /\ layerRes' = NoLayerRes
          ELSE /\ ws' = ws
               /\ prep' = [NoPrep EXCEPT !.before = ws[W]]
               /\ lpc' = "init_sync"
               /\ layerRes' = NoLayerRes
    /\ UNCHANGED <<op, pc, call, cloud, remote, trace, result, resources, destroyed, obs>>
    /\ UNCHANGED <<execVars, needVars, pureVars, binVars, concVars, applied>>

\* Variant: the result of init is not tested.
InitFull_IgnoreFailure ==
    /\ op \in {"bootstrap", "destroy"} /\ lpc = "init_full"
    /\ \E o \in {"ok", "fail"} :
        /\ trace' = Append(trace, [e |-> "tf", l |-> call.layer, a |-> "init", r |-> o])
        /\ prep' = [prep EXCEPT !.inits = @ + 1, !.lastInit = o]
        /\ ws' = IF o = "ok"
                 THEN [ws EXCEPT ![workspace_name(call.layer)].files = @ \cup {TF_CACHE}]
                 ELSE ws
        /\ lpc' = "write_vars"
    /\ UNCHANGED <<op, pc, call, cloud, remote, layerRes, result, resources, destroyed, obs>>
    /\ UNCHANGED <<execVars, needVars, pureVars, binVars, concVars, applied>>

\* executor.execute(['init']) after a clean workspace
InitFull ==
    /\ InManager /\ lpc = "init_full"
    /\ \E o \in Outcomes(ws[W]) :
        /\ trace' = Append(trace, Event("tf", call.layer, "init", o))
        /\ prep' = [prep EXCEPT !.inits = @ + 1, !.lastInit = o]
        /\ IF o = "ok"
           THEN /\ ws' = [ws EXCEPT ![W].files = @ \cup {TF_CACHE}]
                /\ lpc' = AfterPrepare
                /\ layerRes' = layerRes
           ELSE /\ ws' = ws
                /\ lpc' = "done"
                /\ layerRes' = Raised(IF o = "fail" THEN "Failed to initialize workspace"
                                      ELSE "executor")
    /\ UNCHANGED <<op, pc, call, cloud, remote, result, resources, destroyed, obs>>
    /\ UNCHANGED <<execVars, needVars, pureVars, binVars, concVars, applied>>

\* Variant: a failed sync is tried again instead of falling back.
InitSync_Retry ==
    /\ op \in {"bootstrap", "destroy"} /\ lpc = "init_sync"
    /\ \E o \in {"ok", "fail"} :
        /\ trace' = Append(trace, [e |-> "tf", l |-> call.layer,
                                   a |-> "init -upgrade=false", r |-> o])
        /\ prep' = [prep EXCEPT !.inits = @ + 1, !.syncs = @ + 1, !.lastInit = o,
                                !.syncResult = o]
        /\ lpc' = IF o = "ok" THEN "write_vars" ELSE "init_sync"
    /\ UNCHANGED <<op, pc, call, ws, cloud, remote, layerRes, result, resources,
                   destroyed, obs>>
    /\ UNCHANGED <<execVars, needVars, pureVars, binVars, concVars, applied>>

\* executor.execute(['init', '-upgrade=false']) and its fallback
InitSync ==
    /\ InManager /\ lpc = "init_sync"
    /\ \E o \in Outcomes(ws[W]) :
        /\ trace' = Append(trace, Event("tf", call.layer, "init -upgrade=false", o))
        /\ prep' = [prep EXCEPT !.inits = @ + 1, !.syncs = @ + 1, !.lastInit = o,
                                !.syncResult = o,
                                !.wipes = IF o = "fail" THEN @ + 1 ELSE @]
        /\ CASE o = "ok" ->
                /\ ws' = ws
                /\ lpc' = AfterPrepare
                /\ layerRes' = layerRes
             [] o = "fail" ->
                /\ ws' = [ws EXCEPT ![W] = _prepare_clean_workspace(call.layer, call.cfg)]
                /\ lpc' = "init_full"
                /\ layerRes' = layerRes
             [] OTHER ->
                /\ ws' = ws
                /\ lpc' = "done"
                /\ layerRes' = Raised("executor")
    /\ UNCHANGED <<op, pc, call, cloud, remote, result, resources, destroyed, obs>>
    /\ UNCHANGED <<execVars, needVars, pureVars, binVars, concVars, applied>>

\* with open(vars_file, 'w') as f: json.dump(variables, f)
WriteVars ==
    /\ InManager /\ lpc = "write_vars"
    /\ ws' = [ws EXCEPT ![W] = WriteVarsFile(@)]
    /\ lpc' = IF call.kind = "apply" THEN "apply" ELSE "state_list"
    /\ UNCHANGED <<op, pc, call, cloud, remote, layerRes, trace, result, prep,
                   resources, destroyed, obs>>
    /\ UNCHANGED <<execVars, needVars, pureVars, binVars, concVars, applied>>

\* apply_layer: terraform apply -auto-approve -var-file
Apply ==
    /\ InManager /\ lpc = "apply"
    /\ \E o \in Outcomes(ws[W]) :
        /\ trace' = Append(trace, Event("tf", call.layer, "apply", o))
        /\ CASE o = "ok" ->
                /\ cloud' = CloudAfterApply(call.layer)
                /\ ws' = [ws EXCEPT ![W] = WsWithState(@, LayerAddresses(call.layer))]
                /\ remote' = RemoteWithState(ws[W], LayerAddresses(call.layer), cloud')
                /\ lpc' = "output"
                /\ layerRes' = layerRes
             [] o = "fail" ->
                /\ ws' = [ws EXCEPT ![W] = UnlinkVars(@)]
                /\ lpc' = "done"
                /\ layerRes' = LayerResult(FALSE, FALSE, "Failed to apply", <<>>, "none")
                /\ UNCHANGED <<cloud, remote>>
             [] OTHER ->
                /\ ws' = [ws EXCEPT ![W] = UnlinkVars(@)]
                /\ lpc' = "done"
                /\ layerRes' = Raised("executor")
                /\ UNCHANGED <<cloud, remote>>
    /\ applied' = (applied \/ (/\ call.layer = AWS_BACKEND
                                /\ ~cloud.bucket /\ ~cloud.table
                                /\ cloud'.bucket /\ cloud'.table))
    /\ UNCHANGED <<op, pc, call, result, prep, resources, destroyed, obs>>
    /\ UNCHANGED <<execVars, needVars, pureVars, binVars, concVars>>

\* apply_layer: terraform output -json, json.loads, return, finally
OutputOutcomes == {"json", "garbage", "empty", "fail", "raise"}

Output ==
    /\ InManager /\ lpc = "output"
    /\ \E o \in OutputOutcomes :
        /\ trace' = Append(trace, Event("tf", call.layer, "output", o))
        /\ layerRes' =
             IF o = "raise" THEN Raised("executor")
             ELSE LayerResult(TRUE, FALSE, "Successfully applied", <<>>,
                              IF o = "json" THEN "parsed" ELSE "empty")
    /\ ws' = [ws EXCEPT ![W] = UnlinkVars(@)]
    /\ lpc' = "done"
    /\ UNCHANGED <<op, pc, call, cloud, remote, result, prep, resources, destroyed, obs>>
    /\ UNCHANGED <<execVars, needVars, pureVars, binVars, concVars, applied>>

\* Variant: the state is listed but the addresses are not kept.
StateList_NotCaptured ==
    /\ op \in {"bootstrap", "destroy"} /\ lpc = "state_list"
    /\ \E o \in {"ok", "fail"} :
        /\ trace' = Append(trace, [e |-> "tf", l |-> call.layer, a |-> "state list", r |-> o])
        /\ resources' = <<>>
        /\ lpc' = "destroy"
    /\ UNCHANGED <<op, pc, call, ws, cloud, remote, layerRes, result, prep, destroyed, obs>>
    /\ UNCHANGED <<execVars, needVars, pureVars, binVars, concVars, applied>>

\* destroy_layer: terraform state list
StateList ==
    /\ InManager /\ lpc = "state_list"
    /\ \E o \in Outcomes(ws[W]) :
        /\ trace' = Append(trace, Event("tf", call.layer, "state list", o))
        /\ CASE o = "ok" ->
                /\ resources' = TfState(ws[W])
                /\ lpc' = "destroy"
                /\ UNCHANGED <<ws, layerRes>>
             [] o = "fail" ->
                /\ resources' = <<>>
                /\ lpc' = "destroy"
                /\ UNCHANGED <<ws, layerRes>>
             [] OTHER ->
                /\ resources' = <<>>
                /\ ws' = [ws EXCEPT ![W] = UnlinkVars(@)]
                /\ lpc' = "done"
                /\ layerRes' = Raised("executor")
    /\ UNCHANGED <<op, pc, call, cloud, remote, result, prep, destroyed, obs>>
    /\ UNCHANGED <<execVars, needVars, pureVars, binVars, concVars, applied>>

\* destroy_layer: terraform destroy -auto-approve -var-file, return, finally
Destroy ==
    /\ InManager /\ lpc = "destroy"
    /\ \E o \in Outcomes(ws[W]) :
        /\ trace' = Append(trace, Event("tf", call.layer, "destroy", o))
        /\ CASE o = "ok" ->
                /\ cloud' = CloudAfterDestroy(TfState(ws[W]))
                /\ ws' = [ws EXCEPT ![W] = UnlinkVars(WsWithState(@, <<>>))]
                /\ remote' = RemoteWithState(ws[W], <<>>, cloud')
                /\ layerRes' = LayerResult(TRUE, FALSE, "Successfully destroyed",
                                           resources, "none")
                /\ obs' = [obs EXCEPT !.removed = TfState(ws[W])]
             [] o = "fail" ->
                /\ ws' = [ws EXCEPT ![W] = UnlinkVars(@)]
                /\ layerRes' = LayerResult(FALSE, FALSE, "Failed to destroy", <<>>, "none")
                /\ UNCHANGED <<cloud, remote, obs>>
             [] OTHER ->
                /\ ws' = [ws EXCEPT ![W] = UnlinkVars(@)]
                /\ layerRes' = Raised("executor")
                /\ UNCHANGED <<cloud, remote, obs>>
    /\ lpc' = "done"
    /\ applied' = (applied /\ cloud'.bucket /\ cloud'.table)
    /\ UNCHANGED <<op, pc, call, result, prep, resources, destroyed>>
    /\ UNCHANGED <<execVars, needVars, pureVars, binVars, concVars>>

-----------------------------------------------------------------------------
(* TerraformManager.bootstrap / _bootstrap_aws                             *)

CallLayer(kind, layer, cfg) ==
    [kind |-> kind, layer |-> layer, cfg |-> cfg, force_clean |-> FALSE]

Failure(message, error) == TerraformResult(FALSE, message, NoConfig, <<>>, error)

\* What a live existence probe can answer: found, a ClientError (treated as
\* not found), or another exception (connection, credentials).
ProbeOutcomes(present) == IF present THEN {"ok", "Error"} ELSE {"ClientError", "Error"}

Idle == pc \in {"none", "done"}

StartBootstrap ==
    /\ Idle
    /\ op' = "bootstrap" /\ pc' = "b_session" /\ lpc' = "none"
    /\ call' = NoCall /\ layerRes' = NoLayerRes /\ trace' = <<>>
    /\ result' = NoResult /\ prep' = NoPrep /\ resources' = <<>>
    /\ destroyed' = <<>> /\ obs' = NoObs
    /\ UNCHANGED <<ws, cloud, remote>>
    /\ UNCHANGED <<execVars, needVars, pureVars, binVars, concVars, applied>>

\* create_aws_session, sts get_caller_identity
BootstrapSession ==
    /\ op = "bootstrap" /\ pc = "b_session"
    /\ \E o \in {"ok", "Error"} :
        /\ trace' = Append(trace, Event("cloud", "", "get_caller_identity", o))
        /\ IF o = "ok"
           THEN /\ pc' = "b_probe"
                /\ UNCHANGED <<op, result>>
           ELSE /\ op' = op /\ pc' = "done"
                /\ result' = Failure("Bootstrap failed", "session")
    /\ UNCHANGED <<lpc, call, ws, cloud, remote, layerRes, prep, resources, destroyed, obs>>
    /\ UNCHANGED <<execVars, needVars, pureVars, binVars, concVars, applied>>

\* Variant: only the bucket is probed.
_aws_backend_exists_BucketOnly(b, t) ==
    IF b = "Error" THEN "Error"
    ELSE IF b = "ClientError" THEN "missing"
    ELSE "exists"

\* _aws_backend_exists: head_bucket, then describe_table
_aws_backend_exists(b, t) ==
    IF b = "Error" THEN "Error"
    ELSE IF b = "ClientError" THEN "missing"
    ELSE IF t = "Error" THEN "Error"
    ELSE IF t = "ClientError" THEN "missing"
    ELSE "exists"

\* Variant: a missing backend is not created before the iam layer.
BootstrapProbe_SkipBackend ==
    /\ op = "bootstrap" /\ pc = "b_probe"
    /\ \E b \in ProbeOutcomes(cloud.bucket), t \in ProbeOutcomes(cloud.table) :
        LET found == _aws_backend_exists(b, t) IN
        /\ obs' = [obs EXCEPT !.backend = found, !.bucket = b,
                              !.table = IF b = "ok" THEN t ELSE "skipped"]
        /\ CASE found = "Error" ->
                /\ op' = op /\ pc' = "done"
                /\ result' = Failure("Bootstrap failed", "probe")
                /\ UNCHANGED <<lpc, call, trace>>
             [] OTHER ->
                /\ pc' = "b_role"
                /\ UNCHANGED <<op, result, lpc, call, trace>>
    /\ UNCHANGED <<ws, cloud, remote, layerRes, prep, resources, destroyed>>
    /\ UNCHANGED <<execVars, needVars, pureVars, binVars, concVars, applied>>

BootstrapProbe ==
    /\ op = "bootstrap" /\ pc = "b_probe"
    /\ \E b \in ProbeOutcomes(cloud.bucket), t \in ProbeOutcomes(cloud.table) :
        LET found == _aws_backend_exists(b, t) IN
        /\ obs' = [obs EXCEPT !.backend = found, !.bucket = b,
                              !.table = IF b = "ok" THEN t ELSE "skipped"]
        /\ CASE found = "Error" ->
                /\ op' = op /\ pc' = "done"
                /\ result' = Failure("Bootstrap failed", "probe")
                /\ UNCHANGED <<lpc, call, trace>>
             [] found = "missing" ->
                /\ pc' = "b_backend" /\ lpc' = "prepare"
                /\ call' = CallLayer("apply", AWS_BACKEND, NoConfig)
                /\ trace' = Append(trace, Event("apply_layer", AWS_BACKEND, "", ""))
                /\ UNCHANGED <<op, result>>
             [] OTHER ->
                /\ pc' = "b_role"
                /\ UNCHANGED <<op, result, lpc, call, trace>>
    /\ UNCHANGED <<ws, cloud, remote, layerRes, prep, resources, destroyed>>
    /\ UNCHANGED <<execVars, needVars, pureVars, binVars, concVars, applied>>

\* Variant: a backend layer that returned failure does not stop the bootstrap.
BootstrapAfterBackend_Continue ==
    /\ op = "bootstrap" /\ pc = "b_backend" /\ lpc = "done"
    /\ lpc' = "none"
    /\ IF layerRes.raised
       THEN /\ op' = op /\ pc' = "done"
            /\ result' = [success |-> FALSE, message |-> "Bootstrap failed",
                          backend_config |-> <<>>, destroyed_resources |-> <<>>,
                          error |-> layerRes.message]
       ELSE /\ pc' = "b_role"
            /\ UNCHANGED <<op, result>>
    /\ UNCHANGED <<call, ws, cloud, remote, layerRes, trace, prep, resources, destroyed, obs>>
    /\ UNCHANGED <<execVars, needVars, pureVars, binVars, concVars, applied>>

\* backend_result of apply_layer(AWS_BACKEND)
BootstrapAfterBackend ==
    /\ op = "bootstrap" /\ pc = "b_backend" /\ lpc = "done"
    /\ lpc' = "none"
    /\ IF layerRes.raised
       THEN /\ op' = op /\ pc' = "done"
            /\ result' = Failure("Bootstrap failed", layerRes.message)
       ELSE IF ~layerRes.success
       THEN /\ op' = op /\ pc' = "done"
            /\ result' = Failure(layerRes.message, "")
       ELSE /\ pc' = "b_role"
            /\ UNCHANGED <<op, result>>
    /\ UNCHANGED <<call, ws, cloud, remote, layerRes, trace, prep, resources, destroyed, obs>>
    /\ UNCHANGED <<execVars, needVars, pureVars, binVars, concVars, applied>>

\* _import_existing_iam_role, then apply_layer(AWS_IAM, ..., iam_backend_config)
_import_existing_iam_role(o) ==
    <<Event("cloud", "", "get_role", o)>>

BootstrapRole ==
    /\ op = "bootstrap" /\ pc = "b_role"
    /\ \E o \in ProbeOutcomes(cloud.role) :
        /\ obs' = [obs EXCEPT !.role = o, !.inState = InSeq(ROLE_ADDRESS, remote)]
        /\ trace' = trace \o _import_existing_iam_role(o)
                          \o <<Event("apply_layer", AWS_IAM, "", "")>>
    /\ pc' = "b_iam" /\ lpc' = "prepare"
    /\ call' = CallLayer("apply", AWS_IAM, iam_backend_config)
    /\ UNCHANGED <<op, ws, cloud, remote, layerRes, result, prep, resources, destroyed>>
    /\ UNCHANGED <<execVars, needVars, pureVars, binVars, concVars, applied>>

\* Variant: no try block, an exception of the iam layer leaves bootstrap.
BootstrapAfterIam_NoTry ==
    /\ op = "bootstrap" /\ pc = "b_iam" /\ lpc = "done"
    /\ lpc' = "none" /\ op' = op /\ pc' = "done"
    /\ result' =
         IF layerRes.raised
         THEN [success |-> FALSE, message |-> "raised", backend_config |-> <<>>,
               destroyed_resources |-> <<>>, error |-> layerRes.message]
         ELSE [success |-> layerRes.success, message |-> layerRes.message,
               backend_config |-> IF layerRes.success THEN backend_config ELSE <<>>,
               destroyed_resources |-> <<>>, error |-> ""]
    /\ UNCHANGED <<call, ws, cloud, remote, layerRes, trace, prep, resources, destroyed, obs>>
    /\ UNCHANGED <<execVars, needVars, pureVars, binVars, concVars, applied>>

\* Variant: the iam key is added to backend_config itself, not to a copy.
BootstrapAfterIam_NoCopy ==
    /\ op = "bootstrap" /\ pc = "b_iam" /\ lpc = "done"
    /\ lpc' = "none" /\ op' = op /\ pc' = "done"
    /\ result' =
         IF layerRes.raised THEN Failure("Bootstrap failed", layerRes.message)
         ELSE IF ~layerRes.success THEN Failure(layerRes.message, "")
         ELSE TerraformResult(TRUE, "AWS infrastructure bootstrapped successfully",
                              iam_backend_config, <<>>, "")
    /\ UNCHANGED <<call, ws, cloud, remote, layerRes, trace, prep, resources, destroyed, obs>>
    /\ UNCHANGED <<execVars, needVars, pureVars, binVars, concVars, applied>>

\* iam_result of apply_layer(AWS_IAM); result.set_backend_config
BootstrapAfterIam ==
    /\ op = "bootstrap" /\ pc = "b_iam" /\ lpc = "done"
    /\ lpc' = "none" /\ op' = op /\ pc' = "done"
    /\ result' =
         IF layerRes.raised THEN Failure("Bootstrap failed", layerRes.message)
         ELSE IF ~layerRes.success THEN Failure(layerRes.message, "")
         ELSE TerraformResult(TRUE, "AWS infrastructure bootstrapped successfully",
                              backend_config, <<>>, "")
    /\ UNCHANGED <<call, ws, cloud, remote, layerRes, trace, prep, resources, destroyed, obs>>
    /\ UNCHANGED <<execVars, needVars, pureVars, binVars, concVars, applied>>

-----------------------------------------------------------------------------
(* TerraformManager.destroy / _destroy_aws, cleanup                        *)

StartDestroy ==
    /\ Idle
    /\ op' = "destroy" /\ pc' = "d_session" /\ lpc' = "none"
    /\ call' = NoCall /\ layerRes' = NoLayerRes /\ trace' = <<>>
    /\ result' = NoResult /\ prep' = NoPrep /\ resources' = <<>>
    /\ destroyed' = <<>> /\ obs' = NoObs
    /\ UNCHANGED <<ws, cloud, remote>>
    /\ UNCHANGED <<execVars, needVars, pureVars, binVars, concVars, applied>>

DestroySession ==
    /\ op = "destroy" /\ pc = "d_session"
    /\ \E o \in {"ok", "Error"} :
        /\ IF o = "ok"
           THEN /\ pc' = "d_iam" /\ lpc' = "prepare"
                /\ call' = CallLayer("destroy", AWS_IAM, iam_backend_config)
                /\ trace' = trace \o <<Event("cloud", "", "get_caller_identity", o),
                                       Event("destroy_layer", AWS_IAM, "", "")>>
                /\ UNCHANGED <<op, result>>
           ELSE /\ op' = op /\ pc' = "done"
                /\ trace' = Append(trace, Event("cloud", "", "get_caller_identity", o))
                /\ result' = Failure("Destroy failed", "session")
                /\ UNCHANGED <<lpc, call>>
    /\ UNCHANGED <<ws, cloud, remote, layerRes, prep, resources, destroyed, obs>>
    /\ UNCHANGED <<execVars, needVars, pureVars, binVars, concVars, applied>>

\* Variant: no inner try, an exception of the iam layer ends the destroy.
DestroyAfterIam_NoInnerTry ==
    /\ op = "destroy" /\ pc = "d_iam" /\ lpc = "done"
    /\ obs' = [obs EXCEPT !.iam_result = IF layerRes.raised THEN "raised"
                                         ELSE IF layerRes.success THEN "ok" ELSE "failed"]
    /\ IF layerRes.raised
       THEN /\ op' = op /\ pc' = "done" /\ lpc' = "none"
            /\ result' = [success |-> FALSE, message |-> "Destroy failed",
                          backend_config |-> NoConfig, destroyed_resources |-> <<>>,
                          error |-> layerRes.message]
            /\ UNCHANGED <<call, trace, destroyed, resources>>
       ELSE /\ destroyed' = IF layerRes.success
                            THEN destroyed \o layerRes.destroyed_resources ELSE destroyed
            /\ pc' = "d_backend" /\ lpc' = "prepare"
            /\ call' = [kind |-> "destroy", layer |-> AWS_BACKEND, cfg |-> NoConfig,
                        force_clean |-> FALSE]
            /\ trace' = Append(trace, [e |-> "destroy_layer", l |-> AWS_BACKEND,
                                       a |-> "", r |-> ""])
            /\ resources' = <<>>
            /\ UNCHANGED <<op, result>>
    /\ UNCHANGED <<ws, cloud, remote, layerRes, prep>>
    /\ UNCHANGED <<execVars, needVars, pureVars, binVars, concVars, applied>>

\* Variant: the workspaces are wiped before the backend layer is destroyed.
DestroyAfterIam_CleanupFirst ==
    /\ op = "destroy" /\ pc = "d_iam" /\ lpc = "done"
    /\ destroyed' = IF ~layerRes.raised /\ layerRes.success
                    THEN destroyed \o layerRes.destroyed_resources ELSE destroyed
    /\ obs' = [obs EXCEPT !.iam_result = IF layerRes.raised THEN "raised"
                                         ELSE IF layerRes.success THEN "ok" ELSE "failed"]
    /\ pc' = "d_backend" /\ lpc' = "prepare"
    /\ call' = [kind |-> "destroy", layer |-> AWS_BACKEND, cfg |-> <<>>,
                force_clean |-> FALSE]
    /\ ws' = [n \in DOMAIN ws |->
                [exists |-> FALSE, files |-> {}, backend |-> <<>>, tfstate |-> <<>>]]
    /\ trace' = trace \o <<[e |-> "cleanup", l |-> "", a |-> "", r |-> ""],
                           [e |-> "destroy_layer", l |-> AWS_BACKEND, a |-> "", r |-> ""]>>
    /\ resources' = <<>>
    /\ UNCHANGED <<op, cloud, remote, layerRes, result, prep>>
    /\ UNCHANGED <<execVars, needVars, pureVars, binVars, concVars, applied>>

\* try: iam_result = destroy_layer(AWS_IAM) ... except: print_info
DestroyAfterIam ==
    /\ op = "destroy" /\ pc = "d_iam" /\ lpc = "done"
    /\ destroyed' = IF ~layerRes.raised /\ layerRes.success
                    THEN destroyed \o layerRes.destroyed_resources ELSE destroyed
    /\ obs' = [obs EXCEPT !.iam_result = IF layerRes.raised THEN "raised"
                                         ELSE IF layerRes.success THEN "ok" ELSE "failed"]
    /\ pc' = "d_backend" /\ lpc' = "prepare"
    /\ call' = CallLayer("destroy", AWS_BACKEND, NoConfig)
    /\ trace' = Append(trace, Event("destroy_layer", AWS_BACKEND, "", ""))
    /\ resources' = <<>>
    /\ UNCHANGED <<op, ws, cloud, remote, layerRes, result, prep>>
    /\ UNCHANGED <<execVars, needVars, pureVars, binVars, concVars, applied>>

\* shutil.rmtree(self.workspace_dir)
cleanup(w) == [n \in Workspaces |-> AbsentWs]

\* backend_result of destroy_layer(AWS_BACKEND); cleanup; result
DestroyAfterBackend ==
    /\ op = "destroy" /\ pc = "d_backend" /\ lpc = "done"
    /\ lpc' = "none" /\ op' = op /\ pc' = "done"
    /\ obs' = [obs EXCEPT !.backend_result = IF layerRes.raised THEN "raised"
                                             ELSE IF layerRes.success THEN "ok" ELSE "failed"]
    /\ IF layerRes.raised
       THEN /\ result' = Failure("Destroy failed", layerRes.message)
            /\ UNCHANGED <<ws, destroyed, trace>>
       ELSE /\ destroyed' = IF layerRes.success
                            THEN destroyed \o layerRes.destroyed_resources ELSE destroyed
            /\ ws' = cleanup(ws)
            /\ trace' = Append(trace, Event("cleanup", "", "", ""))
            /\ result' = TerraformResult(TRUE, "AWS infrastructure destroyed successfully",
                                         NoConfig, destroyed', "")
    /\ UNCHANGED <<call, cloud, remote, layerRes, prep, resources>>
    /\ UNCHANGED <<execVars, needVars, pureVars, binVars, concVars, applied>>

-----------------------------------------------------------------------------
(* TerraformManager.list_resources / _list_aws_resources                   *)

StartList ==
    /\ Idle
    /\ op' = "list" /\ pc' = "l_session" /\ lpc' = "none"
    /\ \E force_clean \in BOOLEAN : call' = [NoCall EXCEPT !.force_clean = force_clean]
    /\ layerRes' = NoLayerRes /\ trace' = <<>>
    /\ result' = NoResult /\ prep' = NoPrep /\ resources' = <<>>
    /\ destroyed' = <<>> /\ obs' = NoObs
    /\ UNCHANGED <<ws, cloud, remote>>
    /\ UNCHANGED <<execVars, needVars, pureVars, binVars, concVars, applied>>

\* create_aws_session, sts get_caller_identity
ListSession ==
    /\ op = "list" /\ pc = "l_session"
    /\ \E o \in {"ok", "Error"} :
        /\ trace' = Append(trace, Event("cloud", "", "get_caller_identity", o))
        /\ IF o = "ok"
           THEN /\ pc' = "l_probe"
                /\ UNCHANGED <<op, result>>
           ELSE /\ op' = op /\ pc' = "done"
                /\ result' = Failure("Failed to list resources", "session")
    /\ UNCHANGED <<lpc, call, ws, cloud, remote, layerRes, prep, resources, destroyed, obs>>
    /\ UNCHANGED <<execVars, needVars, pureVars, binVars, concVars, applied>>

\* One entry of the resources list
ResourceEntry(resource_type, name, status, source) ==
    [resource_type |-> resource_type, name |-> name, status |-> status,
     source |-> source]

\* _list_aws_backend_resources: the bucket entry, then the lock table entry
_list_aws_backend_resources(b, t) ==
    <<ResourceEntry("S3 Bucket", bucket_name,
                    IF b = "ok" THEN "Found" ELSE "Not Found", "aws_api"),
      ResourceEntry("DynamoDB Lock Table", lock_table,
                    IF t = "ok" THEN "Found" ELSE "Not Found", "aws_api")>>

\* The entries _list_aws_iam_resources makes of the lines of state list
StateEntries(listed) ==
    [i \in 1..Len(listed) |->
        ResourceEntry("state", listed[i], "Managed in State", "terraform_state")]

\* _list_aws_backend_resources: head_bucket and describe_table, each with
\* its own except ClientError; then _list_aws_iam_resources prepares the
\* iam workspace
ListProbe ==
    /\ op = "list" /\ pc = "l_probe"
    /\ \E b \in ProbeOutcomes(cloud.bucket), t \in ProbeOutcomes(cloud.table) :
        /\ obs' = [obs EXCEPT !.bucket = b,
                              !.table = IF b = "Error" THEN "skipped" ELSE t]
        /\ IF b = "Error" \/ t = "Error"
           THEN /\ op' = op /\ pc' = "done"
                /\ result' = Failure("Failed to list resources", "probe")
                /\ UNCHANGED <<lpc, call, trace, resources>>
           ELSE /\ pc' = "l_iam" /\ lpc' = "prepare"
                /\ call' = [kind |-> "list", layer |-> AWS_IAM,
                            cfg |-> iam_backend_config,
                            force_clean |-> call.force_clean]
                /\ resources' = _list_aws_backend_resources(b, t)
                /\ trace' = Append(trace, Event("list_iam", AWS_IAM, "", ""))
                /\ UNCHANGED <<op, result>>
    /\ UNCHANGED <<ws, cloud, remote, layerRes, prep, destroyed>>
    /\ UNCHANGED <<execVars, needVars, pureVars, binVars, concVars, applied>>

\* Variant: the lines of state list are not added to the entries.
ListState_NotMerged ==
    /\ op = "list" /\ lpc = "list_state"
    /\ \E o \in Outcomes(ws[W]) :
        /\ trace' = Append(trace, Event("tf", call.layer, "state list", o))
        /\ layerRes' = IF o = "raise" THEN Raised("executor")
                       ELSE LayerResult(o = "ok", FALSE, "", <<>>, "none")
    /\ lpc' = "done"
    /\ UNCHANGED <<op, pc, call, ws, cloud, remote, result, prep, resources,
                   destroyed, obs>>
    /\ UNCHANGED <<execVars, needVars, pureVars, binVars, concVars, applied>>

\* _list_aws_iam_resources: terraform state list, one entry per line
ListState ==
    /\ op = "list" /\ lpc = "list_state"
    /\ \E o \in Outcomes(ws[W]) :
        /\ trace' = Append(trace, Event("tf", call.layer, "state list", o))
        /\ resources' = IF o = "ok" THEN resources \o StateEntries(TfState(ws[W]))
                        ELSE resources
        /\ layerRes' = IF o = "raise" THEN Raised("executor")
                       ELSE LayerResult(o = "ok", FALSE, "", <<>>, "none")
    /\ lpc' = "done"
    /\ UNCHANGED <<op, pc, call, ws, cloud, remote, result, prep, destroyed, obs>>
    /\ UNCHANGED <<execVars, needVars, pureVars, binVars, concVars, applied>>

\* except Exception: pass; TerraformResult(True, "Found n resources")
ListAfterIam ==
    /\ op = "list" /\ pc = "l_iam" /\ lpc = "done"
    /\ lpc' = "none" /\ op' = op /\ pc' = "done"
    /\ result' = TerraformResult(TRUE, "Found resources", NoConfig, <<>>, "")
    /\ UNCHANGED <<call, ws, cloud, remote, layerRes, trace, prep, resources, destroyed, obs>>
    /\ UNCHANGED <<execVars, needVars, pureVars, binVars, concVars, applied>>

-----------------------------------------------------------------------------
(* services/terraform_manager.py: TerraformLayer, and                      *)
(* services/bootstrap.py: bootstrap_aws_infrastructure                     *)

\* TerraformLayer._generate_backend_tf of services/terraform_manager.py
Layer_generate_backend_tf(cfg) ==
    IF Get(cfg, "bucket", "") # "" /\ Get(cfg, "key", "") # "" /\ Get(cfg, "region", "") # ""
    THEN <<NL, "terraform {", NL,
           "  backend \"s3\" {", NL,
           "    bucket         = \"" \o cfg["bucket"] \o "\"", NL,
           "    key            = \"" \o cfg["key"] \o "\"", NL,
           "    region         = \"" \o cfg["region"] \o "\"", NL>>
         \o (IF Get(cfg, "dynamodb_table", "") # ""
             THEN <<"    dynamodb_table = \"" \o cfg["dynamodb_table"] \o "\"", NL>>
             ELSE <<>>)
         \o <<"  }", NL, "}", NL>>
    ELSE ValueError

\* TerraformLayer._prepare_workspace, then _generate_backend_tf when a
\* backend config is given: the workspace always starts clean.
Layer_prepare_workspace(layer, cfg) ==
    [exists  |-> TRUE,
     files   |-> GlobTf(SourceBundle(layer))
                 \cup (IF cfg # NoConfig /\ Layer_generate_backend_tf(cfg) # ValueError
                       THEN {BACKEND_FILE} ELSE {}),
     backend |-> IF cfg # NoConfig /\ Layer_generate_backend_tf(cfg) # ValueError
                 THEN Layer_generate_backend_tf(cfg) ELSE <<>>,
     tfstate |-> <<>>]

InLegacy == op = "legacy"

LegacyRaise(detail) == Failure("raised", detail)

\* The classes of the exception that leaves bootstrap_aws_infrastructure
\* from each step: both except blocks re-raise what they caught.
\* create_aws_session turns ProfileNotFound and NoCredentialsError into
\* ValueError and lets every other error through; the probes and get_role
\* raise botocore errors; _run_command raises TerraformExecutionError;
\* json.loads raises JSONDecodeError, a subclass of ValueError.
ExceptionClasses(detail) ==
    CASE detail = "session" -> {"ValueError", "ClientError"}
      [] detail \in {"probe", "get_role"} -> {"ClientError"}
      [] detail = "output" -> {"TerraformExecutionError", "JSONDecodeError"}
      [] OTHER -> {"TerraformExecutionError"}
ValueErrors == {"ValueError", "JSONDecodeError"}

StartLegacy ==
    /\ Idle
    /\ op' = "legacy" /\ pc' = "g_session" /\ lpc' = "none"
    /\ call' = NoCall /\ layerRes' = NoLayerRes /\ trace' = <<>>
    /\ result' = NoResult /\ prep' = NoPrep /\ resources' = <<>>
    /\ destroyed' = <<>> /\ obs' = NoObs
    /\ UNCHANGED <<ws, cloud, remote>>
    /\ UNCHANGED <<execVars, needVars, pureVars, binVars, concVars, applied>>

\* TerraformManager(platform, workspace_dir), create_aws_session, sts
LegacySession ==
    /\ InLegacy /\ pc = "g_session"
    /\ \E o \in {"ok", "Error"} :
        /\ trace' = Append(trace, Event("cloud", "", "get_caller_identity", o))
        /\ IF o = "ok"
           THEN /\ pc' = "g_probe"
                /\ UNCHANGED <<op, result>>
           ELSE /\ op' = op /\ pc' = "done"
                /\ result' = LegacyRaise("session")
    /\ UNCHANGED <<lpc, call, ws, cloud, remote, layerRes, prep, resources, destroyed, obs>>
    /\ UNCHANGED <<execVars, needVars, pureVars, binVars, concVars, applied>>

\* Step 2 of bootstrap_aws_infrastructure up to the end of get_layer's
\* workspace preparation: session, iam backend config, clean workspace.
LegacyIamLayer(disk) ==
    /\ pc' = "g_iam" /\ lpc' = "g_init"
    /\ call' = CallLayer("apply", AWS_IAM, iam_backend_config)
    /\ ws' = [disk EXCEPT ![workspace_name(AWS_IAM)] =
                 Layer_prepare_workspace(AWS_IAM, iam_backend_config)]

\* head_bucket / describe_table with the 404 and ResourceNotFoundException
\* tests, then get_layer('basic/00-backend') when something is missing
LegacyProbe ==
    /\ InLegacy /\ pc = "g_probe"
    /\ \E b \in ProbeOutcomes(cloud.bucket), t \in ProbeOutcomes(cloud.table) :
        LET found == IF b = "Error" \/ t = "Error" THEN "Error"
                     ELSE IF b = "ok" /\ t = "ok" THEN "exists" ELSE "missing" IN
        /\ obs' = [obs EXCEPT !.backend = found]
        /\ CASE found = "Error" ->
                /\ op' = op /\ pc' = "done"
                /\ result' = LegacyRaise("probe")
                /\ UNCHANGED <<lpc, call, ws, trace>>
             [] found = "missing" ->
                /\ pc' = "g_backend" /\ lpc' = "g_init"
                /\ call' = CallLayer("apply", AWS_BACKEND, NoConfig)
                /\ ws' = [ws EXCEPT ![workspace_name(AWS_BACKEND)] =
                             Layer_prepare_workspace(AWS_BACKEND, NoConfig)]
                /\ trace' = Append(trace, Event("get_layer", AWS_BACKEND, "", ""))
                /\ UNCHANGED <<op, result>>
             [] OTHER ->
                /\ LegacyIamLayer(ws)
                /\ trace' = Append(trace, Event("get_layer", AWS_IAM, "", ""))
                /\ UNCHANGED <<op, result>>
    /\ UNCHANGED <<cloud, remote, layerRes, prep, resources, destroyed>>
    /\ UNCHANGED <<execVars, needVars, pureVars, binVars, concVars, applied>>

\* TerraformLayer.__init__: self._run_command(['init'])
LegacyInit ==
    /\ InLegacy /\ lpc = "g_init"
    /\ \E o \in Outcomes(ws[W]) :
        /\ trace' = Append(trace, Event("tf", call.layer, "init", o))
        /\ IF o = "ok"
           THEN /\ ws' = [ws EXCEPT ![W].files = @ \cup {TF_CACHE}]
                /\ lpc' = IF call.layer = AWS_BACKEND THEN "g_write" ELSE "g_role"
                /\ UNCHANGED <<op, pc, result>>
           ELSE /\ op' = op /\ pc' = "done" /\ lpc' = "none"
                /\ result' = LegacyRaise("init")
                /\ ws' = ws
    /\ UNCHANGED <<call, cloud, remote, layerRes, prep, resources, destroyed, obs>>
    /\ UNCHANGED <<execVars, needVars, pureVars, binVars, concVars, applied>>

\* iam_client.get_role, then iam_layer.list_state() starts
LegacyRole ==
    /\ InLegacy /\ lpc = "g_role"
    /\ \E o \in ProbeOutcomes(cloud.role) :
        /\ trace' = Append(trace, Event("cloud", "", "get_role", o))
        /\ obs' = [obs EXCEPT !.role = o, !.inState = InSeq(ROLE_ADDRESS, remote)]
        /\ IF o = "Error"
           THEN /\ op' = op /\ pc' = "done" /\ lpc' = "none"
                /\ result' = LegacyRaise("get_role")
           ELSE /\ lpc' = "g_state_list"
                /\ UNCHANGED <<op, pc, result>>
    /\ UNCHANGED <<call, ws, cloud, remote, layerRes, prep, resources, destroyed>>
    /\ UNCHANGED <<execVars, needVars, pureVars, binVars, concVars, applied>>

\* TerraformLayer.list_state; then import_resource begins by writing the
\* variables file, or apply is called
\* exit 0 with the addresses ("ok"); exit 0 printing the notice instead of
\* addresses ("ok_msg"); a non-zero exit with the notice or with nothing
\* ("fail_empty"), with other text ("fail"); an exception of another kind.
NO_RESOURCES == "No resources found in the state."

ListOutcomes(w) ==
    Outcomes(w) \cup {"fail_empty"}
               \cup (IF "ok" \in Outcomes(w) /\ TfState(w) = <<>> THEN {"ok_msg"} ELSE {})

LegacyStateList ==
    /\ InLegacy /\ lpc = "g_state_list"
    /\ \E o \in ListOutcomes(ws[W]) :
        LET listed == IF o = "ok" THEN TfState(ws[W])
                      ELSE IF o = "ok_msg" THEN <<NO_RESOURCES>> ELSE <<>>
            role_in_state == InSeq(ROLE_ADDRESS, listed) IN
        /\ resources' = listed
        /\ IF o \in {"fail", "raise"}
           THEN /\ op' = op /\ pc' = "done" /\ lpc' = "none"
                /\ result' = LegacyRaise("state list")
                /\ trace' = Append(trace, Event("tf", call.layer, "state list", o))
                /\ ws' = ws
           ELSE /\ IF obs.role = "ok" /\ ~role_in_state
                   THEN /\ lpc' = "g_import"
                        /\ ws' = [ws EXCEPT ![W] = WriteVarsFile(@)]
                        /\ trace' = trace \o <<Event("tf", call.layer, "state list", o),
                                       Event("import_resource", call.layer, ROLE_ADDRESS, "")>>
                   ELSE /\ lpc' = "g_write"
                        /\ ws' = ws
                        /\ trace' = Append(trace, Event("tf", call.layer, "state list", o))
                /\ UNCHANGED <<op, pc, result>>
    /\ UNCHANGED <<call, cloud, remote, layerRes, prep, destroyed, obs>>
    /\ UNCHANGED <<execVars, needVars, pureVars, binVars, concVars, applied>>

\* TerraformLayer.import_resource: terraform import, "already in state",
\* finally
ImportOutcomes(w) == Outcomes(w) \cup {"fail_already"}

\* Variant: every failed import is raised, whatever it printed.
LegacyImport_Strict ==
    /\ op = "legacy" /\ lpc = "g_import"
    /\ \E o \in {"ok", "fail", "fail_already"} :
        /\ trace' = Append(trace, [e |-> "tf", l |-> call.layer, a |-> "import", r |-> o])
        /\ ws' = [ws EXCEPT ![workspace_name(call.layer)].files = @ \ {"terraform.tfvars.json"}]
        /\ IF o = "ok"
           THEN /\ lpc' = "g_write"
                /\ UNCHANGED <<op, pc, result>>
           ELSE /\ op' = op /\ pc' = "done" /\ lpc' = "none"
                /\ result' = [success |-> FALSE, message |-> "raised",
                              backend_config |-> <<>>, destroyed_resources |-> <<>>,
                              error |-> "import"]
    /\ UNCHANGED <<call, cloud, remote, layerRes, prep, resources, destroyed, obs>>
    /\ UNCHANGED <<execVars, needVars, pureVars, binVars, concVars, applied>>

LegacyImport ==
    /\ InLegacy /\ lpc = "g_import"
    /\ \E o \in ImportOutcomes(ws[W]) :
        /\ trace' = Append(trace, Event("tf", call.layer, "import", o))
        /\ IF o \in {"ok", "fail_already"}
           THEN /\ remote' = IF o = "ok" /\ ~InSeq(ROLE_ADDRESS, remote)
                             THEN Append(remote, ROLE_ADDRESS) ELSE remote
                /\ ws' = [ws EXCEPT ![W] = UnlinkVars(@)]
                /\ lpc' = "g_write"
                /\ UNCHANGED <<op, pc, result>>
           ELSE /\ ws' = [ws EXCEPT ![W] = UnlinkVars(@)]
                /\ op' = op /\ pc' = "done" /\ lpc' = "none"
                /\ result' = LegacyRaise("import")
                /\ remote' = remote
    /\ UNCHANGED <<call, cloud, layerRes, prep, resources, destroyed, obs>>
    /\ UNCHANGED <<execVars, needVars, pureVars, binVars, concVars, applied>>

\* TerraformLayer.apply: the variables file is written
LegacyWriteVars ==
    /\ InLegacy /\ lpc = "g_write"
    /\ ws' = [ws EXCEPT ![W] = WriteVarsFile(@)]
    /\ lpc' = "g_apply"
    /\ UNCHANGED <<op, pc, call, cloud, remote, layerRes, trace, result, prep,
                   resources, destroyed, obs>>
    /\ UNCHANGED <<execVars, needVars, pureVars, binVars, concVars, applied>>

\* TerraformLayer.apply: terraform apply -auto-approve
LegacyApply ==
    /\ InLegacy /\ lpc = "g_apply"
    /\ \E o \in Outcomes(ws[W]) :
        /\ trace' = Append(trace, Event("tf", call.layer, "apply", o))
        /\ IF o = "ok"
           THEN /\ cloud' = CloudAfterApply(call.layer)
                /\ ws' = [ws EXCEPT ![W] = WsWithState(@, LayerAddresses(call.layer))]
                /\ remote' = RemoteWithState(ws[W], LayerAddresses(call.layer), cloud')
                /\ lpc' = "g_output"
                /\ UNCHANGED <<op, pc, result>>
           ELSE /\ ws' = [ws EXCEPT ![W] = UnlinkVars(@)]
                /\ op' = op /\ pc' = "done" /\ lpc' = "none"
                /\ result' = LegacyRaise("apply")
                /\ UNCHANGED <<cloud, remote>>
    /\ UNCHANGED <<call, layerRes, prep, resources, destroyed, obs>>
    /\ UNCHANGED <<execVars, needVars, pureVars, binVars, concVars, applied>>

\* TerraformLayer.apply: terraform output -json, json.loads, finally; then
\* the caller goes on: step 2 after the backend layer, the return value
\* after the iam layer
LegacyOutput ==
    /\ InLegacy /\ lpc = "g_output"
    /\ \E o \in OutputOutcomes :
        /\ IF o = "json"
           THEN IF call.layer = AWS_BACKEND
                THEN /\ LegacyIamLayer([ws EXCEPT ![W] = UnlinkVars(@)])
                     /\ trace' = trace \o <<Event("tf", call.layer, "output", o),
                                            Event("get_layer", AWS_IAM, "", "")>>
                     /\ UNCHANGED <<op, result>>
                ELSE /\ ws' = [ws EXCEPT ![W] = UnlinkVars(@)]
                     /\ trace' = Append(trace, Event("tf", call.layer, "output", o))
                     /\ op' = op /\ pc' = "done" /\ lpc' = "none"
                     /\ result' = TerraformResult(TRUE, "", backend_config, <<>>, "")
                     /\ call' = call
           ELSE /\ ws' = [ws EXCEPT ![W] = UnlinkVars(@)]
                /\ trace' = Append(trace, Event("tf", call.layer, "output", o))
                /\ op' = op /\ pc' = "done" /\ lpc' = "none"
                /\ result' = LegacyRaise("output")
                /\ call' = call
    /\ UNCHANGED <<cloud, remote, layerRes, prep, resources, destroyed, obs>>
    /\ UNCHANGED <<execVars, needVars, pureVars, binVars, concVars, applied>>

-----------------------------------------------------------------------------
(* Specification of the manager                                            *)

IdleExec == /\ xin = <<>> /\ xout = <<>>
IdleNeeds == /\ nin = <<>> /\ nout = <<>>
IdlePure == /\ pin = <<>> /\ pout = <<>>
IdleBinary == tfbin = <<>>
IdleConc == conc = <<>>

Init ==
    /\ op = "none" /\ pc = "none" /\ lpc = "none"
    /\ call = NoCall
    /\ ws = [n \in Workspaces |-> AbsentWs]
    /\ cloud \in [bucket : BOOLEAN, table : BOOLEAN, role : BOOLEAN]
    /\ remote = <<>>
    /\ layerRes = NoLayerRes /\ trace = <<>> /\ result = NoResult
    /\ prep = NoPrep /\ resources = <<>> /\ destroyed = <<>> /\ obs = NoObs
    /\ applied = FALSE
    /\ IdleExec /\ IdleNeeds /\ IdlePure /\ IdleBinary /\ IdleConc

Next ==
    \/ StartBootstrap \/ BootstrapSession \/ BootstrapProbe
    \/ BootstrapAfterBackend \/ BootstrapRole \/ BootstrapAfterIam
    \/ StartDestroy \/ DestroySession \/ DestroyAfterIam \/ DestroyAfterBackend
    \/ StartList \/ ListSession \/ ListProbe \/ ListState \/ ListAfterIam
    \/ Prepare \/ InitFull \/ InitSync \/ WriteVars
    \/ Apply \/ Output \/ StateList \/ Destroy
    \/ StartLegacy \/ LegacySession \/ LegacyProbe \/ LegacyInit \/ LegacyRole
    \/ LegacyStateList \/ LegacyImport \/ LegacyWriteVars \/ LegacyApply \/ LegacyOutput

Spec == Init /\ [][Next]_vars

-----------------------------------------------------------------------------
(* TerraformExecutor.execute: validation in front of the process spawn      *)

MaxArgs == 2

\* Argument strings and the characters each contains.
Args == {"init", "apply", "-auto-approve", "apply; rm -rf /", "$(id)"}

CharsOf(arg) ==
    CASE arg = "init" -> {"i", "n", "t"}
      [] arg = "apply" -> {"a", "p", "l", "y"}
      [] arg = "-auto-approve" -> {"-", "a", "u", "t", "o", "p", "r", "v", "e"}
      [] arg = "apply; rm -rf /" -> {"a", "p", "l", "y", ";", " ", "r", "m", "-", "f", "/"}
      [] arg = "$(id)" -> {"$", "(", "i", "d", ")"}
      [] arg = "default" -> {"d", "e", "f", "a", "u", "l", "t"}
      [] arg = "x|id" -> {"x", "|", "i", "d"}
      [] arg = "AWS_PROFILE" -> {"A", "W", "S", "_", "P", "R", "O", "F", "I", "L", "E"}
      [] arg = "A&B" -> {"A", "&", "B"}
      [] OTHER -> {}

valid_commands ==
    {"init", "apply", "destroy", "refresh", "output", "state", "plan", "validate",
     "workspace", "import", "taint", "untaint", "force-unlock", "console"}

\* The backtick, backslash and the two quotes are written by name.
MetaChars ==
    {";", "&", "|", ">", "<", "backtick", "$", "(", ")", "{", "}", "[", "]",
     "backslash", "dquote", "squote"}

HasMeta(arg) == CharsOf(arg) \cap MetaChars # {}

Commands == UNION {[1..n -> Args] : n \in 0..MaxArgs}

\* A working directory path: what it leads to, whether the path itself is a
\* symlink, and whether it has a ".." segment or ".." inside a name.
WorkingDirs ==
    [target : {"dir", "file", "missing"}, symlink : BOOLEAN,
     dots : {"none", "segment", "in_name"}]

\* Environment overrides: sets of <<key, value>>.
EnvVars == {{}, {<<"AWS_PROFILE", "default">>}, {<<"AWS_PROFILE", "x|id">>},
            {<<"A&B", "default">>}}

BinaryStates == {"cached", "download_ok", "download_fail"}

\* Path.resolve(): symlinks followed, ".." segments folded away
resolve(d) ==
    [target |-> d.target, symlink |-> FALSE,
     dots |-> IF d.dots = "segment" THEN "none" ELSE d.dots]

Ok == [error |-> "none", message |-> "", named |-> ""]
Err(error, message, named) == [error |-> error, message |-> message, named |-> named]

_validate_working_dir(d) ==
    LET r == resolve(d) IN
    IF r.dots # "none" \/ r.symlink
    THEN Err("ValueError", "Invalid working directory path", "")
    ELSE IF r.target = "missing"
    THEN Err("FileNotFoundError", "Working directory does not exist", "")
    ELSE IF r.target # "dir"
    THEN Err("ValueError", "Working directory is not a directory", "")
    ELSE Ok

FirstMeta(command) ==
    CHOOSE i \in 1..Len(command) :
        /\ HasMeta(command[i])
        /\ \A j \in 1..(i - 1) : ~HasMeta(command[j])

\* Variant: the allow-list test is missing, only the characters are scanned.
_validate_command_MetaOnly(command) ==
    IF \E i \in 1..Len(command) : HasMeta(command[i])
    THEN Err("ValueError", "Command argument contains invalid characters",
             command[FirstMeta(command)])
    ELSE Ok

_validate_command(command) ==
    IF command # <<>> /\ command[1] \notin valid_commands
    THEN Err("ValueError", "Invalid terraform command", command[1])
    ELSE IF \E i \in 1..Len(command) : HasMeta(command[i])
    THEN Err("ValueError", "Command argument contains invalid characters",
             command[FirstMeta(command)])
    ELSE Ok

_validate_env_vars(env) ==
    IF \E kv \in env : HasMeta(kv[1])
    THEN Err("ValueError", "Environment variable key contains invalid characters", "")
    ELSE IF \E kv \in env : HasMeta(kv[2])
    THEN Err("ValueError", "Environment variable value contains invalid characters", "")
    ELSE Ok

\* TerraformBinary.get_path
get_path(b) ==
    IF b = "download_fail" THEN Err("ConnectionError", "Failed to download Terraform", "")
    ELSE Ok

\* The steps execute performs, in order, up to the first that raises.
execute(x) ==
    LET wd  == _validate_working_dir(x.working_dir)
        cmd == _validate_command(x.command)
        env == _validate_env_vars(x.env_vars)
        bin == get_path(x.binary)
    IN  IF wd # Ok THEN [steps |-> <<"validate_working_dir">>, raised |-> wd]
        ELSE IF cmd # Ok
        THEN [steps |-> <<"validate_working_dir", "validate_command">>, raised |-> cmd]
        ELSE IF env # Ok
        THEN [steps |-> <<"validate_working_dir", "validate_command",
                          "validate_env_vars">>, raised |-> env]
        ELSE IF bin # Ok
        THEN [steps |-> <<"validate_working_dir", "validate_command",
                          "validate_env_vars", "get_path">>, raised |-> bin]
        ELSE [steps |-> <<"validate_working_dir", "validate_command",
                          "validate_env_vars", "get_path", "spawn">>, raised |-> Ok]

IdleManager ==
    /\ op = "none" /\ pc = "none" /\ lpc = "none" /\ call = NoCall
    /\ ws = [n \in Workspaces |-> AbsentWs]
    /\ cloud = [bucket |-> FALSE, table |-> FALSE, role |-> FALSE]
    /\ remote = <<>> /\ layerRes = NoLayerRes /\ trace = <<>> /\ result = NoResult
    /\ prep = NoPrep /\ resources = <<>> /\ destroyed = <<>> /\ obs = NoObs
    /\ applied = FALSE

InitExec ==
    /\ IdleManager /\ IdleNeeds /\ IdlePure /\ IdleBinary /\ IdleConc
    /\ xin \in [command : Commands, working_dir : WorkingDirs, env_vars : EnvVars,
                binary : BinaryStates]
    /\ xout = <<>>

Execute ==
    /\ xin # <<>> /\ xout = <<>>
    /\ xout' = execute(xin)
    /\ UNCHANGED <<xin, mgrVars, needVars, pureVars, binVars, concVars>>

SpecExec == InitExec /\ [][Execute]_vars

-----------------------------------------------------------------------------
(* _needs_full_initialization over workspaces found on disk                *)

other_backend_config ==
    [bucket |-> "constellaxion-tf-state-" \o ACCOUNT \o "-eu-west-1",
     region |-> "eu-west-1", key |-> "iam/terraform.tfstate"]

BackendConfigs ==
    {NoConfig, backend_config, iam_backend_config, other_backend_config,
     [region |-> REGION]}

\* Contents a _backend.tf can have: written by either generator, for either
\* config, and the same text saved with other surrounding blank lines.
BackendContents ==
    LET gen == {_generate_backend_tf(c) : c \in BackendConfigs \ {NoConfig}}
               \ {ValueError}
    IN  gen \cup {Layer_generate_backend_tf(iam_backend_config)}
            \cup {<<NL>> \o g : g \in gen}
            \cup {SubSeq(g, 1, Len(g) - 1) : g \in gen}
            \cup {<<>>}

DiskWorkspaces ==
    {AbsentWs} \cup
    {[exists |-> TRUE, files |-> f, backend |-> b, tfstate |-> <<>>] :
        f \in SUBSET {TF_CACHE, "main.tf", "outputs.tf", VARS_FILE},
        b \in {<<>>}}
    \cup
    {[exists |-> TRUE, files |-> f \cup {BACKEND_FILE}, backend |-> b, tfstate |-> <<>>] :
        f \in SUBSET {TF_CACHE, "main.tf", "outputs.tf", VARS_FILE},
        b \in BackendContents}

InitNeeds ==
    /\ IdleManager /\ IdleExec /\ IdlePure /\ IdleBinary /\ IdleConc
    /\ nin \in [w : DiskWorkspaces, cfg : BackendConfigs]
    /\ nout = <<>>

NeedsFullInitialization ==
    /\ nin # <<>> /\ nout = <<>>
    /\ nout' = [needs |-> _needs_full_initialization(nin.w, nin.cfg)]
    /\ UNCHANGED <<nin, mgrVars, execVars, pureVars, binVars, concVars>>

SpecNeeds == InitNeeds /\ [][NeedsFullInitialization]_vars

-----------------------------------------------------------------------------
(* Pure functions: _generate_backend_tf over dicts with an insertion order, *)
(* TerraformConfig.validate, to_dict / from_dict, the service's validation, *)
(* the executor's two modes of running the process                         *)

\* A dict as Python keeps it: its items in insertion order, keys distinct.
ConfigKeys == {"bucket", "region", "key", "dynamodb_table"}
ConfigValues(k) ==
    CASE k = "bucket" -> {bucket_name}
      [] k = "region" -> {REGION}
      [] k = "key" -> {"iam/terraform.tfstate"}
      [] OTHER -> {"", lock_table}

RECURSIVE OrderedItems(_)
OrderedItems(keys) ==
    {<<>>} \cup
    UNION {{<<<<k, v>>>> \o rest : v \in ConfigValues(k), rest \in OrderedItems(keys \ {k})} :
           k \in keys}

OrderedDicts == OrderedItems(ConfigKeys)

\* Lookup by key, the only way _generate_backend_tf reads its argument.
DictOf(items) ==
    [k \in {items[i][1] : i \in 1..Len(items)} |->
        LET i == CHOOSE i \in 1..Len(items) : items[i][1] = k IN items[i][2]]

\* TerraformConfig: provider, region, project_id (None or a string)
MaxRegionLen == 2
RegionChars == {" ", TAB, "e"}
RECURSIVE Texts(_)
Texts(n) ==
    IF n = 0 THEN {<<>>}
    ELSE Texts(n - 1) \cup {Append(t, c) : t \in Texts(n - 1), c \in RegionChars}

Regions == Texts(MaxRegionLen)
CloudProvider == {"aws", "gcp"}
None == [none |-> TRUE, text |-> <<>>]
Some(t) == [none |-> FALSE, text |-> t]
ProjectIds == {None, Some(<<>>), Some(<<"p">>)}
TerraformConfigs == [provider : CloudProvider, region : Regions, project_id : ProjectIds]

\* not x, for an optional string
Falsy(x) == x.none \/ x.text = <<>>

\* Variant: validation stops at the first violated rule.
validate_FirstOnly(config) ==
    LET errors ==
          IF config.region = <<>> \/ Strip(config.region) = <<>>
          THEN <<"Region is required">>
          ELSE IF config.provider = "gcp" /\ (config.project_id.none \/ config.project_id.text = <<>>)
          THEN <<"project_id is required for GCP">>
          ELSE <<>>
    IN  [is_valid |-> Len(errors) = 0, errors |-> errors]

\* TerraformConfig.validate
validate(config) ==
    LET e1 == IF config.region = <<>> \/ Strip(config.region) = <<>>
              THEN <<"Region is required">> ELSE <<>>
        e2 == IF config.provider = "gcp" /\ Falsy(config.project_id)
              THEN <<"project_id is required for GCP">> ELSE <<>>
        errors == e1 \o e2
    IN  [is_valid |-> Len(errors) = 0, errors |-> errors]

\* TerraformConfig with all five fields; the three optional ones are None,
\* the empty string or a name.
OptionalStrings == {None, Some(<<>>), Some(<<"p">>)}
FullConfigs ==
    [provider : CloudProvider, region : {<<>>, <<"e">>},
     profile : OptionalStrings, project_id : OptionalStrings,
     workspace_dir : OptionalStrings]

\* result[k] = v, executed only under "if v:" (v truthy)
PutIfTruthy(d, k, v) == IF Falsy(v) THEN d ELSE d @@ (k :> v.text)

\* TerraformConfig.to_dict: a dict is a function from its keys.
to_dict(config) ==
    LET base == [provider |-> config.provider, region |-> config.region]
    IN  PutIfTruthy(PutIfTruthy(PutIfTruthy(base,
            "profile", config.profile),
            "project_id", config.project_id),
            "workspace_dir", config.workspace_dir)

\* data.get(k): None when the key is missing
DictGet(data, k) == IF k \in DOMAIN data THEN Some(data[k]) ELSE None

\* TerraformConfig.from_dict
from_dict(data) ==
    LET provider_str == IF "provider" \in DOMAIN data THEN data["provider"] ELSE "aws"
    IN  [provider |-> IF provider_str = "aws" THEN "aws" ELSE "gcp",
         region |-> data["region"],
         profile |-> DictGet(data, "profile"),
         project_id |-> DictGet(data, "project_id"),
         workspace_dir |-> DictGet(data, "workspace_dir")]

\* CloudProvider.from_string: the enum value, or ValueError with its message
ProviderStrings == CloudProvider \cup {"azure"}
NotSupported(provider_str) ==
    "Provider '" \o provider_str \o "' is not supported. Supported providers: 'aws', 'gcp'"
from_string(provider_str) ==
    IF provider_str \notin CloudProvider
    THEN [raised |-> TRUE, value |-> "", error |-> NotSupported(provider_str)]
    ELSE [raised |-> FALSE, value |-> provider_str, error |-> ""]

\* "; ".join(errors), as the sequence of its pieces
RECURSIVE Join(_)
Join(errors) ==
    IF Len(errors) <= 1 THEN errors
    ELSE <<Head(errors), "; ">> \o Join(Tail(errors))

\* TerraformService._validate_and_create_config: the config, or the
\* ValueError it raises
_validate_and_create_config(provider, region, project_id) ==
    LET provider_enum == from_string(provider)
        config == [provider |-> provider_enum.value, region |-> region,
                   project_id |-> project_id]
        v == validate(config)
    IN  IF provider_enum.raised
        THEN [raised |-> TRUE, config |-> <<>>, error |-> <<provider_enum.error>>]
        ELSE IF ~v.is_valid
        THEN [raised |-> TRUE, config |-> <<>>, error |-> Join(v.errors)]
        ELSE [raised |-> FALSE, config |-> config, error |-> <<>>]

Operations == {"bootstrap", "destroy", "list_resources"}

\* TerraformService._create_error_response (the fields every operation has)
_create_error_response(operation, error) ==
    [success |-> FALSE, message |-> "Failed to " \o operation, error |-> Some(error)]

\* What a TerraformManager operation can hand back to the service.
ManagerResults ==
    {[success |-> TRUE, message |-> "ok", error |-> None],
     [success |-> FALSE, message |-> "failed", error |-> None],
     [success |-> FALSE, message |-> "failed", error |-> Some(<<"error">>)]}

\* One run of the terraform process: whether it could be started, whether
\* it runs past the 30 minutes of captured mode, its exit code and what it
\* printed on each stream.
ProcessRuns ==
    [started : BOOLEAN, timeout : BOOLEAN, returncode : {0, 1, 2},
     out : {<<>>, <<"o">>}, err : {<<>>, <<"e">>}]

\* core TerraformResult as the executor fills it; stdout and stderr default
\* to the empty string.
ExecResult(success, message, stdout, stderr, returncode) ==
    [success |-> success, message |-> message, stdout |-> stdout,
     stderr |-> stderr, returncode |-> returncode]

\* Variant: on timeout what was captured so far is handed back.
_execute_with_capture_TrustPartial(p) ==
    IF ~p.started
    THEN ExecResult(FALSE, "Execution failed", <<>>,
                    <<"Failed to execute terraform: ">>, -1)
    ELSE IF p.timeout
    THEN ExecResult(FALSE, "Command timed out", p.out, p.err, -1)
    ELSE ExecResult(p.returncode = 0, "Command executed", p.out, p.err, p.returncode)

\* TerraformExecutor._execute_with_capture
_execute_with_capture(p) ==
    IF ~p.started
    THEN ExecResult(FALSE, "Execution failed", <<>>,
                    <<"Failed to execute terraform: ">>, -1)
    ELSE IF p.timeout
    THEN ExecResult(FALSE, "Command timed out", <<>>,
                    <<"Command timed out after 30 minutes">>, -1)
    ELSE ExecResult(p.returncode = 0, "Command executed", p.out, p.err, p.returncode)

\* TerraformExecutor._execute_with_streaming: stderr is redirected into
\* stdout, there is no timeout, and the result's stderr is "".
_execute_with_streaming(p) ==
    IF ~p.started
    THEN ExecResult(FALSE, "Execution failed", <<>>,
                    <<"Failed to execute terraform: ">>, -1)
    ELSE ExecResult(p.returncode = 0, "Command executed", p.out \o p.err, <<>>,
                    p.returncode)

\* The result apply_layer and destroy_layer return when the streamed apply
\* or destroy did not succeed: TerraformResult(False, message,
\* stderr=<the executor result's stderr>).
FailedLayerResult(message, r) == ExecResult(FALSE, message, <<>>, r.stderr, 0)

LayerMessages == {"Failed to apply", "Failed to destroy"}

PureInputs ==
    {[f |-> "generate", a |-> a, b |-> b] : a \in OrderedDicts, b \in OrderedDicts}
    \cup {[f |-> "validate", config |-> c] : c \in TerraformConfigs}
    \cup {[f |-> "roundtrip", config |-> c] : c \in FullConfigs}
    \cup {[f |-> "service", operation |-> o, provider |-> p, region |-> r,
            project_id |-> i] :
           o \in Operations, p \in ProviderStrings, r \in Regions, i \in ProjectIds}
    \cup {[f |-> "run", capture_output |-> c, process |-> p] :
           c \in BOOLEAN, p \in ProcessRuns}
    \cup {[f |-> "layer", message |-> m, process |-> p] :
           m \in LayerMessages, p \in ProcessRuns}

InitPure ==
    /\ IdleManager /\ IdleExec /\ IdleNeeds /\ IdleBinary /\ IdleConc
    /\ pin \in PureInputs
    /\ pout = <<>>

\* _generate_backend_tf called once for each of two dicts
GenerateBackendTf ==
    /\ pin # <<>> /\ pout = <<>> /\ pin.f = "generate"
    /\ pout' = [a |-> _generate_backend_tf(DictOf(pin.a)),
                b |-> _generate_backend_tf(DictOf(pin.b))]
    /\ UNCHANGED <<pin, mgrVars, execVars, needVars, binVars, concVars>>

Validate ==
    /\ pin # <<>> /\ pout = <<>> /\ pin.f = "validate"
    /\ pout' = validate(pin.config)
    /\ UNCHANGED <<pin, mgrVars, execVars, needVars, binVars, concVars>>

\* to_dict followed by from_dict
RoundTrip ==
    /\ pin # <<>> /\ pout = <<>> /\ pin.f = "roundtrip"
    /\ pout' = [data |-> to_dict(pin.config),
                restored |-> from_dict(to_dict(pin.config))]
    /\ UNCHANGED <<pin, mgrVars, execVars, needVars, binVars, concVars>>

\* TerraformService.bootstrap_infrastructure / destroy_infrastructure /
\* list_resources: the manager is constructed and run only when
\* _validate_and_create_config returned.
ServiceCall ==
    /\ pin # <<>> /\ pout = <<>> /\ pin.f = "service"
    /\ LET c == _validate_and_create_config(pin.provider, pin.region, pin.project_id)
       IN  IF c.raised
           THEN pout' = [manager |-> FALSE,
                         response |-> _create_error_response(pin.operation, c.error)]
           ELSE \E r \in ManagerResults :
                  pout' = [manager |-> TRUE, response |-> r]
    /\ UNCHANGED <<pin, mgrVars, execVars, needVars, binVars, concVars>>

\* The tail of TerraformExecutor.execute: one mode or the other
RunProcess ==
    /\ pin # <<>> /\ pout = <<>> /\ pin.f = "run"
    /\ pout' = IF pin.capture_output THEN _execute_with_capture(pin.process)
               ELSE _execute_with_streaming(pin.process)
    /\ UNCHANGED <<pin, mgrVars, execVars, needVars, binVars, concVars>>

\* The apply of apply_layer, or the destroy of destroy_layer, run in
\* streaming mode, and the check of its result
RunLayerCommand ==
    /\ pin # <<>> /\ pout = <<>> /\ pin.f = "layer"
    /\ LET r == _execute_with_streaming(pin.process)
       IN  pout' = IF ~r.success
                   THEN [failed |-> TRUE, result |-> FailedLayerResult(pin.message, r)]
                   ELSE [failed |-> FALSE, result |-> r]
    /\ UNCHANGED <<pin, mgrVars, execVars, needVars, binVars, concVars>>

NextPure ==
    \/ GenerateBackendTf \/ Validate \/ RoundTrip \/ ServiceCall
    \/ RunProcess \/ RunLayerCommand

SpecPure == InitPure /\ [][NextPure]_vars

-----------------------------------------------------------------------------
(* The terraform binary cache: TerraformBinary.get_path and the legacy     *)
(* TerraformManager._get_or_download_terraform, on the same cache directory *)

MaxCalls == 3

\* What the download can do: complete with a good archive, fail before
\* anything is written, fail after part of the archive is written, or
\* complete with a file that is not a zip archive.
DownloadOutcomes == {"ok", "refused", "interrupted", "corrupt"}

\* The cache directory: the binary file and the downloaded archive.
CacheDirs == [binary : BOOLEAN, zip : BOOLEAN]

Returned(c, value, requested) == [cache |-> c, result |-> value, requested |-> requested]

\* TerraformBinary._download_and_extract: both except branches unlink the
\* archive if it exists before raising.
_download_and_extract(c, o) ==
    CASE o = "ok" -> Returned([binary |-> TRUE, zip |-> FALSE], "ok", TRUE)
      [] o = "refused" -> Returned([c EXCEPT !.zip = FALSE], "ConnectionError", TRUE)
      [] o = "interrupted" -> Returned([c EXCEPT !.zip = FALSE], "ConnectionError", TRUE)
      [] o = "corrupt" -> Returned([c EXCEPT !.zip = FALSE], "ValueError", TRUE)

\* TerraformBinary._download_binary
_download_binary(c, supported, o) ==
    IF ~supported THEN Returned(c, "NotImplementedError", FALSE)
    ELSE _download_and_extract(c, o)

\* Variant: the binary is downloaded on every call.
get_path_cached_Never(c) == FALSE

\* self._binary_path.exists()
get_path_cached(c) == c.binary

\* TerraformBinary.get_path on cache directory c
get_path_on(c, supported, o) ==
    IF ~get_path_cached(c)
    THEN LET d == _download_binary(c, supported, o)
         IN  IF d.result = "ok" THEN Returned(d.cache, "path", d.requested) ELSE d
    ELSE Returned(c, "path", FALSE)

\* legacy TerraformManager._get_or_download_terraform: only the download
\* is inside the try, extraction is not, and the archive is unlinked on
\* the success path alone.
_get_or_download_terraform(c, supported, o) ==
    IF c.binary THEN Returned(c, "path", FALSE)
    ELSE IF ~supported THEN Returned(c, "NotImplementedError", FALSE)
    ELSE CASE o = "ok" -> Returned([binary |-> TRUE, zip |-> FALSE], "path", TRUE)
           [] o = "refused" -> Returned(c, "ConnectionError", TRUE)
           [] o = "interrupted" ->
                 Returned([c EXCEPT !.zip = TRUE], "ConnectionError", TRUE)
           [] o = "corrupt" ->
                 Returned([c EXCEPT !.zip = TRUE], "BadZipFile", TRUE)

CallRecord(impl, o, r) ==
    [impl |-> impl, before |-> tfbin.cache, outcome |-> o, after |-> r.cache,
     result |-> r.result, requested |-> r.requested]

InitBinary ==
    /\ IdleManager /\ IdleExec /\ IdleNeeds /\ IdlePure /\ IdleConc
    /\ tfbin \in [cache : {c \in CacheDirs : ~c.zip}, supported : BOOLEAN,
                  log : {<<>>}]

\* One get_path call of a TerraformBinary
GetPath ==
    /\ tfbin # <<>> /\ Len(tfbin.log) < MaxCalls
    /\ \E o \in DownloadOutcomes :
        LET r == get_path_on(tfbin.cache, tfbin.supported, o) IN
        tfbin' = [tfbin EXCEPT !.cache = r.cache,
                               !.log = Append(@, CallRecord("new", o, r))]
    /\ UNCHANGED <<mgrVars, execVars, needVars, pureVars, concVars>>

\* One construction of a legacy TerraformManager
GetOrDownloadTerraform ==
    /\ tfbin # <<>> /\ Len(tfbin.log) < MaxCalls
    /\ \E o \in DownloadOutcomes :
        LET r == _get_or_download_terraform(tfbin.cache, tfbin.supported, o) IN
        tfbin' = [tfbin EXCEPT !.cache = r.cache,
                               !.log = Append(@, CallRecord("legacy", o, r))]
    /\ UNCHANGED <<mgrVars, execVars, needVars, pureVars, concVars>>

NextBinary == GetPath \/ GetOrDownloadTerraform

SpecBinary == InitBinary /\ [][NextBinary]_vars

-----------------------------------------------------------------------------
(* Properties                                                              *)

Called(e, l) == \E i \in 1..Len(trace) : trace[i].e = e /\ trace[i].l = l
Ran(l, cmds) ==
    \E i \in 1..Len(trace) : trace[i].e = "tf" /\ trace[i].l = l /\ trace[i].a \in cmds
TfSuffixed == {"main.tf", "variables.tf", "outputs.tf"}

\* apply_layer(AWS_BACKEND) came back with success
BackendApplied ==
    \E i \in 1..Len(trace) :
        /\ trace[i].e = "tf" /\ trace[i].l = AWS_BACKEND
        /\ trace[i].a = "output" /\ trace[i].r # "raise"

\* C1: in bootstrap, apply_layer is called for the backend layer exactly when
\* the live probe found the bucket or the lock table missing, and once the
\* earlier steps have succeeded (both probed present, or the backend apply
\* succeeded) apply_layer is called for the iam layer.
C1_BackendApplyIffProbedMissing ==
    op = "bootstrap" =>
        /\ Called("apply_layer", AWS_BACKEND)
             <=> (obs.bucket = "ClientError" \/ obs.table = "ClientError")
        /\ (pc = "done" /\ ((obs.bucket = "ok" /\ obs.table = "ok") \/ BackendApplied))
             => Called("apply_layer", AWS_IAM)

C1_Witness ==
    /\ op = "bootstrap" /\ pc = "done"
    /\ obs.bucket = "ok" /\ obs.table = "ok"
    /\ ~Called("apply_layer", AWS_BACKEND)
    /\ Called("apply_layer", AWS_IAM)

\* C2: in a bootstrap (either implementation), when the role probe found the
\* role and its address was not in the iam layer's state, every terraform
\* apply of the iam layer is preceded by an import_resource call for the
\* role's address.
C2_ImportBeforeIamApply ==
    (op \in {"bootstrap", "legacy"} /\ obs.role = "ok" /\ ~obs.inState) =>
        \A i \in 1..Len(trace) :
            (trace[i].e = "tf" /\ trace[i].l = AWS_IAM /\ trace[i].a = "apply") =>
                \E j \in 1..(i - 1) :
                    trace[j].e = "import_resource" /\ trace[j].a = ROLE_ADDRESS

\* C3: a destroy whose iam layer destroy raised still calls destroy_layer
\* for the backend layer, and its destroyed_resources are exactly the
\* addresses the backend layer reported if that one succeeded, none otherwise.
C3_DestroyContinuesAfterIamRaise ==
    (op = "destroy" /\ pc = "done" /\ obs.iam_result = "raised") =>
        /\ Called("destroy_layer", AWS_BACKEND)
        /\ result.destroyed_resources =
             (IF layerRes.success THEN layerRes.destroyed_resources ELSE <<>>)
        /\ \A i \in 1..Len(result.destroyed_resources) :
             ~InSeq(result.destroyed_resources[i], IamAddresses)

C3_Witness ==
    /\ op = "destroy" /\ pc = "done" /\ obs.iam_result = "raised"
    /\ obs.backend_result = "ok"
    /\ result.destroyed_resources = BackendAddresses

\* C4: execute with a first element outside the allow-list raises without
\* resolving the binary or spawning, whatever the directory and environment;
\* with a directory that passes validation the error is the invalid-command
\* error naming that element.
C4_InvalidSubcommandRejected ==
    (xout # <<>> /\ xin.command # <<>> /\ xin.command[1] \notin valid_commands) =>
        /\ xout.raised # Ok
        /\ \A i \in 1..Len(xout.steps) : xout.steps[i] \notin {"get_path", "spawn"}
        /\ (xin.working_dir.target = "dir" /\ xin.working_dir.dots # "in_name") =>
             /\ xout.raised.error = "ValueError"
             /\ xout.raised.message = "Invalid terraform command"
             /\ xout.raised.named = xin.command[1]

C4_Witness ==
    /\ xout # <<>>
    /\ xin.command = <<"apply; rm -rf /">>
    /\ xin.working_dir = [target |-> "dir", symlink |-> FALSE, dots |-> "none"]
    /\ xout.raised.named = "apply; rm -rf /"
    /\ xout.steps = <<"validate_working_dir", "validate_command">>

\* C5: a layer operation gets past workspace preparation only if the last
\* init of that preparation succeeded; otherwise the operation raised, no
\* variables file is in the workspace and no apply, destroy, state or output
\* command was run for the layer.
PastPrepare == lpc \in {"write_vars", "apply", "output", "state_list", "destroy"}

C5_PreparedOnlyAfterInit ==
    (op \in {"bootstrap", "destroy"}) =>
        /\ PastPrepare => prep.lastInit = "ok"
        /\ (lpc = "done" /\ prep.lastInit # "ok") =>
             /\ layerRes.raised
             /\ VARS_FILE \notin ws[W].files
             /\ ~Ran(call.layer, {"apply", "destroy", "state list", "output"})

C5_Witness ==
    /\ op = "destroy" /\ lpc = "done" /\ prep.lastInit = "fail" /\ prep.inits = 2
    /\ layerRes.raised

\* C6: one preparation tries the incremental sync at most once and never when
\* a full reinit was required; a failed sync is followed by one wipe and one
\* plain init; in all at most two inits and one wipe.
C6_SingleRetry ==
    (op \in {"bootstrap", "destroy"} /\ lpc \notin {"none", "prepare"}) =>
        /\ prep.syncs <= 1 /\ prep.inits <= 2 /\ prep.wipes <= 1
        /\ prep.needsFull => prep.syncs = 0
        /\ prep.inits = 2 => (prep.syncs = 1 /\ prep.syncResult = "fail")
        /\ prep.syncResult = "fail" =>
             /\ prep.wipes = 1
             /\ lpc = "init_full" <=> prep.inits = 1
             /\ lpc # "init_sync"
        /\ (~prep.needsFull /\ prep.syncResult # "fail") => prep.wipes = 0

C6_Witness ==
    /\ op = "bootstrap" /\ lpc = "write_vars"
    /\ prep.syncs = 1 /\ prep.inits = 2 /\ prep.wipes = 1 /\ prep.lastInit = "ok"

\* C7: between a full reinit and the init that follows, the workspace holds
\* the .tf files of the layer's source bundle, _backend.tf (freshly
\* generated) exactly when a backend config was given, and nothing else:
\* no .terraform cache, no variables file, no local state.
C7_CleanWorkspaceExact ==
    (op \in {"bootstrap", "destroy"} /\ lpc = "init_full") =>
        /\ ws[W].exists
        /\ ws[W].files \ {BACKEND_FILE} = SourceBundle(call.layer) \cap TfSuffixed
        /\ BACKEND_FILE \in ws[W].files <=> call.cfg # NoConfig
        /\ call.cfg # NoConfig => ws[W].backend = _generate_backend_tf(call.cfg)
        /\ ws[W].tfstate = <<>>

C7_Witness ==
    /\ op = "destroy" /\ lpc = "init_full"
    /\ TF_CACHE \in prep.before.files /\ prep.before.tfstate # <<>>
    /\ ws[W].tfstate = <<>> /\ TF_CACHE \notin ws[W].files

\* C8: _needs_full_initialization is true whenever the workspace has no
\* .terraform cache, whatever the backend config, backend file and .tf files.
C8_MissingCacheNeedsFull ==
    (nout # <<>> /\ TF_CACHE \notin nin.w.files) => nout.needs

C8_Witness ==
    /\ nout # <<>> /\ nout.needs
    /\ nin.w.exists /\ nin.w.files = {"main.tf", BACKEND_FILE}
    /\ nin.cfg = iam_backend_config
    /\ nin.w.backend = _generate_backend_tf(iam_backend_config)

\* The part of a text between its first and its last non-blank piece.
Core(s) ==
    LET idx == {i \in 1..Len(s) : s[i] \notin Whitespace} IN
    IF idx = {} THEN <<>>
    ELSE SubSeq(s, CHOOSE i \in idx : \A j \in idx : i <= j,
                   CHOOSE i \in idx : \A j \in idx : i >= j)

OtherwiseValid(w) == w.exists /\ TF_CACHE \in w.files /\ w.files \cap TfSuffixed # {}
Expected(cfg) == cfg # NoConfig /\ "bucket" \in DOMAIN cfg /\ "region" \in DOMAIN cfg

\* C9 as stated: for an otherwise valid workspace and an expected config the
\* result is true exactly when _backend.tf is absent or its content differs
\* from the generated content.
C9_DiffersIffNeedsFull ==
    (nout # <<>> /\ OtherwiseValid(nin.w) /\ Expected(nin.cfg)) =>
        (nout.needs <=> (BACKEND_FILE \notin nin.w.files
                         \/ nin.w.backend # _generate_backend_tf(nin.cfg)))

\* C9 amended: the result is true exactly when _backend.tf is absent or its
\* content differs from the generated content in more than leading and
\* trailing whitespace.
C9_DiffersBeyondWhitespaceIffNeedsFull ==
    (nout # <<>> /\ OtherwiseValid(nin.w) /\ Expected(nin.cfg)) =>
        (nout.needs <=> (BACKEND_FILE \notin nin.w.files
                         \/ Core(nin.w.backend) # Core(_generate_backend_tf(nin.cfg))))

C9_Witness ==
    /\ nout # <<>> /\ ~nout.needs
    /\ OtherwiseValid(nin.w) /\ nin.cfg = iam_backend_config
    /\ BACKEND_FILE \in nin.w.files
    /\ nin.w.backend # _generate_backend_tf(iam_backend_config)
    /\ Core(nin.w.backend) = Core(_generate_backend_tf(iam_backend_config))

\* C10: terraform.tfvars.json is in a workspace exactly from the moment a
\* layer operation has written it until that operation's finally block: it
\* is there while apply, destroy or import runs, and it is gone when
\* apply_layer, destroy_layer or import_resource has returned or raised and
\* at every other time.
VarsHeld ==
    \/ op \in {"bootstrap", "destroy"} /\ lpc \in {"apply", "output", "state_list", "destroy"}
    \/ op = "legacy" /\ lpc \in {"g_import", "g_apply", "g_output"}

C10_VarsFileScoped ==
    \A n \in Workspaces : VARS_FILE \in ws[n].files <=> (VarsHeld /\ n = W)

C10_Witness ==
    /\ op = "destroy" /\ lpc = "done" /\ layerRes.raised
    /\ trace[Len(trace)] = Event("tf", call.layer, "destroy", "raise")
    /\ VARS_FILE \notin ws[W].files

\* The last two entries of the trace are state list and destroy of the layer.
ListedThenDestroyed ==
    /\ Len(trace) >= 2
    /\ trace[Len(trace) - 1].e = "tf" /\ trace[Len(trace) - 1].l = call.layer
    /\ trace[Len(trace) - 1].a = "state list"
    /\ trace[Len(trace)].e = "tf" /\ trace[Len(trace)].l = call.layer
    /\ trace[Len(trace)].a = "destroy"

DestroyLayerSucceeded ==
    /\ op = "destroy" /\ call.kind = "destroy" /\ lpc = "done"
    /\ layerRes.success

\* C11 as stated: destroy_layer runs state list before destroy, and after a
\* successful destroy its destroyed_resources is the ordered list of the
\* addresses that were in the layer's state, the ones the destroy removed.
C11_DestroyedIsStateBefore ==
    DestroyLayerSucceeded =>
        /\ ListedThenDestroyed
        /\ layerRes.destroyed_resources = obs.removed

\* C11 amended: destroy_layer runs state list before destroy, and after a
\* successful destroy its destroyed_resources is the ordered list of the
\* addresses the destroy removed if state list exited with 0, and is empty
\* if state list exited with another code.
C11_DestroyedIsStateBeforeIfListed ==
    DestroyLayerSucceeded =>
        /\ ListedThenDestroyed
        /\ layerRes.destroyed_resources =
             (IF trace[Len(trace) - 1].r = "ok" THEN obs.removed ELSE <<>>)

C11_Witness ==
    /\ DestroyLayerSucceeded /\ ListedThenDestroyed
    /\ call.layer = AWS_IAM
    /\ trace[Len(trace) - 1].r = "ok"
    /\ layerRes.destroyed_resources = IamAddresses
    /\ obs.removed = IamAddresses /\ remote = <<>>

ImportAttempts ==
    {i \in 1..Len(trace) : trace[i].e = "tf" /\ trace[i].a = "import"}

\* C12: an import_resource whose terraform import failed printing "already
\* in state" completes without error and without a second import attempt
\* (the caller goes on to apply); an import that failed without that text
\* ends the call with the error raised.
C12_AlreadyInStateIsSuccess ==
    op = "legacy" =>
        \A i \in ImportAttempts :
            /\ ImportAttempts = {i}
            /\ trace[i].r = "fail_already" =>
                 /\ result # LegacyRaise("import")
                 /\ pc = "done" => i < Len(trace)
            /\ trace[i].r = "fail" =>
                 /\ pc = "done" /\ i = Len(trace)
                 /\ result = LegacyRaise("import")

C12_Witness ==
    /\ op = "legacy" /\ pc = "done" /\ result.success
    /\ \E i \in ImportAttempts :
         /\ trace[i].r = "fail_already"
         /\ trace[i + 1] = Event("tf", AWS_IAM, "apply", "ok")

\* list_state has just returned or raised: nothing has run since.
JustListed ==
    /\ op = "legacy" /\ Len(trace) >= 1
    /\ LET n == Len(trace)
           i == IF trace[n].e = "import_resource" THEN n - 1 ELSE n
       IN  /\ i >= 1 /\ trace[i].e = "tf" /\ trace[i].a = "state list"
           /\ \/ trace[i].r \in {"fail_empty", "ok_msg"}
              \/ trace[i].r = "ok" /\ TfState(ws[W]) = <<>>

\* C13: list_state on an empty or absent state - terraform state list
\* reporting no resources with a zero or a non-zero exit, or printing
\* nothing - returns the empty sequence and does not raise.
C13_EmptyStateListsNothing ==
    JustListed => (resources = <<>> /\ result # LegacyRaise("state list"))

\* terraform apply succeeded and terraform output -json has just been run
\* without usable output: it failed, printed nothing or printed no JSON.
OutputUnusable ==
    /\ Len(trace) >= 2
    /\ trace[Len(trace) - 1].e = "tf" /\ trace[Len(trace) - 1].a = "apply"
    /\ trace[Len(trace) - 1].r = "ok"
    /\ trace[Len(trace)].e = "tf" /\ trace[Len(trace)].a = "output"
    /\ trace[Len(trace)].r \in {"fail", "empty", "garbage"}

\* C14: an apply of a layer (apply_layer, and apply of the older
\* TerraformLayer) whose terraform apply succeeded and whose output -json
\* failed or could not be parsed returns success with an empty outputs map;
\* it neither fails nor raises.
C14_UnparsedOutputIsSuccess ==
    OutputUnusable =>
        IF op = "legacy"
        THEN result # LegacyRaise("output")
        ELSE layerRes.success /\ ~layerRes.raised /\ layerRes.outputs = "empty"

\* A recorded call or command that makes its step fail: the identity call
\* raising, a plain init or an apply failing or raising, the executor
\* raising for the sync init or for output.  (A sync init that exits
\* non-zero is retried as a full init and is no step failure.)
StepFailed(ev) ==
    \/ ev.e = "cloud" /\ ev.a = "get_caller_identity" /\ ev.r = "Error"
    \/ /\ ev.e = "tf"
       /\ \/ ev.a \in {"init", "apply"} /\ ev.r \in {"fail", "raise"}
          \/ ev.a \in {"init -upgrade=false", "output"} /\ ev.r = "raise"

RoleLookupFailed(ev) == ev.e = "cloud" /\ ev.a = "get_role" /\ ev.r = "Error"

\* Bootstrap stops at the first entry of the trace that satisfies failed, or
\* at a failed backend probe, and its result says so.
StopsAtFirst(failed(_)) ==
    op = "bootstrap" =>
        /\ \A i \in 1..Len(trace) : failed(trace[i]) => i = Len(trace)
        /\ obs.backend = "Error" => (pc = "done" /\ Len(trace) = 1)
        /\ pc = "done" =>
             IF obs.backend = "Error" \/ \E i \in 1..Len(trace) : failed(trace[i])
             THEN ~result.success /\ result.backend_config = NoConfig
                  /\ result.message # ""
             ELSE result.success /\ result.backend_config = backend_config

StepFailedAsStated(ev) == StepFailed(ev) \/ RoleLookupFailed(ev)

CommandsOf(l) == {i \in 1..Len(trace) : trace[i].e = "tf" /\ trace[i].l = l}
CallsOf(e, l) == {i \in 1..Len(trace) : trace[i].e = e /\ trace[i].l = l}
Wipes == {i \in 1..Len(trace) : trace[i].e = "cleanup"}

\* C16: in a destroy every terraform command of the iam layer comes before
\* the call of destroy_layer for the backend layer, every command of the
\* backend layer after it, and the workspace directory is removed once,
\* after the backend layer's destroy_layer has returned, as the last step.
C16_DestroyOrder ==
    op = "destroy" =>
        /\ \A i \in CommandsOf(AWS_IAM), j \in CallsOf("destroy_layer", AWS_BACKEND) : i < j
        /\ \A i \in CommandsOf(AWS_BACKEND) :
             \E j \in CallsOf("destroy_layer", AWS_BACKEND) : j < i
        /\ \A i \in CallsOf("destroy_layer", AWS_IAM),
              j \in CallsOf("destroy_layer", AWS_BACKEND) : i < j
        /\ \A i \in Wipes :
             /\ i = Len(trace) /\ pc = "done"
             /\ obs.backend_result \in {"ok", "failed"}
             /\ \A j \in CommandsOf(AWS_IAM) \cup CommandsOf(AWS_BACKEND) : j < i
        /\ lpc \in {"write_vars", "state_list", "destroy"} => ws[W].exists

C16_Witness ==
    /\ op = "destroy" /\ pc = "done" /\ Wipes # {}
    /\ \E i \in CommandsOf(AWS_IAM), j \in CommandsOf(AWS_BACKEND) :
         /\ trace[i].a = "destroy" /\ trace[j].a = "destroy" /\ i < j
    /\ \A n \in Workspaces : ~ws[n].exists

\* C17: a destroy whose backend layer destroy_layer returned failure
\* (terraform destroy exited non-zero) returns success = false with a
\* message and error detail; it never reports success.
C17_BackendFailureIsFailure ==
    (op = "destroy" /\ pc = "done" /\ obs.backend_result = "failed") =>
        (~result.success /\ result.message # "" /\ result.error # "")

\* The operation ended with an exception instead of a result.
IsException(r) == r.message = "raised"

IdentityFailed ==
    \E i \in 1..Len(trace) :
        trace[i].e = "cloud" /\ trace[i].a = "get_caller_identity" /\ trace[i].r = "Error"

\* The failure of the finished operation was caused by an exception: of the
\* identity call, of a probe, or of the layer operation it ended with.
EndedByException ==
    \/ IdentityFailed
    \/ op = "bootstrap" /\ (obs.backend = "Error" \/ layerRes.raised)
    \/ op = "destroy" /\ obs.backend_result = "raised"
    \/ op = "list" /\ (obs.bucket = "Error" \/ obs.table = "Error")

\* C18: bootstrap(), destroy() and list_resources() always end with a
\* TerraformResult, never with an exception; when an exception of the
\* preparation, a layer operation, the executor or a cloud call ended the
\* operation, the result has success = false and a populated error.
C18_NoExceptionEscapes ==
    (op \in {"bootstrap", "destroy", "list"} /\ pc = "done") =>
        /\ ~IsException(result)
        /\ EndedByException => (~result.success /\ result.error # "")
        /\ ~result.success => result.message # ""

C18_Witness ==
    /\ op = "bootstrap" /\ pc = "done"
    /\ trace[Len(trace)] = Event("tf", AWS_IAM, "init", "fail")
    /\ layerRes = Raised("Failed to initialize workspace")
    /\ ~result.success /\ result.error = "Failed to initialize workspace"

\* The content has a dynamodb_table line.
TableLines == {"    dynamodb_table = \"" \o v \o "\"" : v \in ConfigValues("dynamodb_table")}
HasTableLine(content) == \E i \in 1..Len(content) : content[i] \in TableLines

Generated == pin # <<>> /\ pin.f = "generate" /\ pout # <<>>

Validated == pin # <<>> /\ pin.f = "validate" /\ pout # <<>>
Blank(t) == \A i \in 1..Len(t) : t[i] \in {" ", TAB, NL}

\* C20: validate reports every violated rule in one call: "Region is
\* required" exactly when the region is empty or only whitespace,
\* "project_id is required for GCP" exactly when the provider is GCP and
\* project_id is empty or absent, and is_valid exactly when there is no error.
C20_ValidateReportsAll ==
    Validated =>
        /\ InSeq("Region is required", pout.errors) <=> Blank(pin.config.region)
        /\ InSeq("project_id is required for GCP", pout.errors)
             <=> (pin.config.provider = "gcp"
                  /\ pin.config.project_id \in {None, Some(<<>>)})
        /\ pout.is_valid <=> pout.errors = <<>>

C20_Witness ==
    /\ Validated
    /\ pin.config = [provider |-> "gcp", region |-> <<" ", TAB>>, project_id |-> None]
    /\ pout.errors = <<"Region is required", "project_id is required for GCP">>
    /\ ~pout.is_valid

RoundTripped == pin # <<>> /\ pin.f = "roundtrip" /\ pout # <<>>

\* C21: for every TerraformConfig, whatever its provider and whether each of
\* profile, project_id and workspace_dir is set, unset or empty,
\* from_dict(to_dict(config)) equals the config field by field.
C21_RoundTripEqual ==
    RoundTripped => pout.restored = pin.config

\* The round trip of configs whose optional fields are unset or non-empty.
C21_RoundTripEqualNonEmpty ==
    (RoundTripped /\ Some(<<>>) \notin
        {pin.config.profile, pin.config.project_id, pin.config.workspace_dir})
    => pout.restored = pin.config

Serviced == pin # <<>> /\ pin.f = "service" /\ pout # <<>>
ProviderInvalid == pin.provider \notin CloudProvider
ProjectMissing == pin.provider = "gcp" /\ Falsy(pin.project_id)
Reports(message) == ~pout.response.error.none /\ InSeq(message, pout.response.error.text)

\* C22: a service call with an invalid provider, a blank region or GCP
\* without project_id returns success = false with a non-null error that
\* reports every violated rule, and no TerraformManager is constructed.
C22_AllViolationsReportedBeforeManager ==
    (Serviced /\ (ProviderInvalid \/ Blank(pin.region) \/ ProjectMissing)) =>
        /\ ~pout.response.success
        /\ ~pout.manager
        /\ ~pout.response.error.none
        /\ ProviderInvalid => Reports(NotSupported(pin.provider))
        /\ Blank(pin.region) => Reports("Region is required")
        /\ ProjectMissing => Reports("project_id is required for GCP")

\* The same with the region rule required only for a supported provider.
C22_ReportedForSupportedProvider ==
    (Serviced /\ (ProviderInvalid \/ Blank(pin.region) \/ ProjectMissing)) =>
        /\ ~pout.response.success
        /\ ~pout.manager
        /\ ~pout.response.error.none
        /\ ProviderInvalid => Reports(NotSupported(pin.provider))
        /\ (~ProviderInvalid /\ Blank(pin.region)) => Reports("Region is required")
        /\ ProjectMissing => Reports("project_id is required for GCP")

LegacyDone == op = "legacy" /\ pc = "done"
AppliesOf(l) == {i \in 1..Len(trace) : trace[i].e = "tf" /\ trace[i].l = l /\ trace[i].a = "apply"}

\* C23: bootstrap_aws_infrastructure applies each layer at most once and
\* returns the backend config unchanged when it succeeds; when it fails, the
\* exception that leaves it is a ValueError and no backend config is
\* returned.
C23_FailureIsValueError ==
    LegacyDone =>
        /\ \A l \in TerraformLayer : Cardinality(AppliesOf(l)) <= 1
        /\ result.success => result.backend_config = backend_config
        /\ ~result.success =>
             /\ result.backend_config = <<>>
             /\ ExceptionClasses(result.error) \subseteq ValueErrors

\* The same without the class of the exception.
C23_ConfigOnlyOnSuccess ==
    LegacyDone =>
        /\ \A l \in TerraformLayer : Cardinality(AppliesOf(l)) <= 1
        /\ result.success => result.backend_config = backend_config
        /\ ~result.success => (IsException(result) /\ result.backend_config = <<>>)

Calls == IF tfbin = <<>> THEN {} ELSE 1..Len(tfbin.log)
NewCalls == {i \in Calls : tfbin.log[i].impl = "new"}

\* C24: a get_path call that finds the binary in the cache returns its path
\* with no network request and leaves the cache as it was, a request is made
\* only when the binary is missing, and once a call has returned the path
\* every later get_path returns the path without another request.
C24_GetPathIdempotent ==
    \A i \in NewCalls :
        LET c == tfbin.log[i] IN
        /\ c.before.binary => (c.result = "path" /\ ~c.requested /\ c.after = c.before)
        /\ c.requested => ~c.before.binary
        /\ c.result = "path" =>
             \A j \in NewCalls :
                 j > i => (tfbin.log[j].result = "path" /\ ~tfbin.log[j].requested)

C24_Witness ==
    /\ Len(tfbin.log) = 2 /\ NewCalls = {1, 2}
    /\ ~tfbin.log[1].before.binary /\ tfbin.log[1].requested
    /\ tfbin.log[1].result = "path"
    /\ tfbin.log[2].before.binary /\ ~tfbin.log[2].requested
    /\ tfbin.log[2].result = "path"

NetworkError(c) == c.outcome \in {"refused", "interrupted"}
Downloaded(c) == ~c.before.binary /\ tfbin.supported

\* C25: a download that fails with a network error ends in a connection
\* error, one that delivers a corrupt archive ends in a data-integrity error,
\* and in both cases no archive file is left in the cache directory.
C25_FailedDownloadLeavesNoArchive ==
    \A i \in Calls :
        LET c == tfbin.log[i] IN
        /\ (Downloaded(c) /\ NetworkError(c)) =>
               (c.result = "ConnectionError" /\ ~c.after.zip)
        /\ (Downloaded(c) /\ c.outcome = "corrupt") =>
               (c.result \in {"ValueError", "BadZipFile"} /\ ~c.after.zip)

\* The same for TerraformBinary alone.
C25_NewLeavesNoArchive ==
    \A i \in NewCalls :
        LET c == tfbin.log[i] IN
        /\ (Downloaded(c) /\ NetworkError(c)) =>
               (c.result = "ConnectionError" /\ ~c.after.zip)
        /\ (Downloaded(c) /\ c.outcome = "corrupt") =>
               (c.result = "ValueError" /\ ~c.after.zip)

Executed == xin # <<>> /\ xout # <<>>
Spawned == Executed /\ InSeq("spawn", xout.steps)
CleanCommand == \A i \in 1..Len(xin.command) : ~HasMeta(xin.command[i])
CleanEnv == \A kv \in xin.env_vars : ~HasMeta(kv[1]) /\ ~HasMeta(kv[2])
AllowedCommand == xin.command # <<>> /\ xin.command[1] \in valid_commands

\* C26: every process spawned by execute has a first argument from the
\* allow-list and no shell metacharacter in its arguments and environment
\* overrides; a call that would break this, a command with no subcommand
\* included, raises and spawns nothing.
C26_SpawnedCommandsAllowed ==
    Executed =>
        /\ Spawned => (AllowedCommand /\ CleanCommand /\ CleanEnv)
        /\ ~(AllowedCommand /\ CleanCommand /\ CleanEnv) =>
               (xout.raised # Ok /\ ~Spawned)

\* The same for calls that name a subcommand.
C26_NonEmptySpawnedCommandsAllowed ==
    (Executed /\ xin.command # <<>>) =>
        /\ Spawned => (AllowedCommand /\ CleanCommand /\ CleanEnv)
        /\ ~(AllowedCommand /\ CleanCommand /\ CleanEnv) =>
               (xout.raised # Ok /\ ~Spawned)

\* C27: execute raises and spawns no process when the working directory
\* does not exist, is not a directory, is or is reached through a symlink,
\* or has a parent-traversal segment.
C27_BadWorkingDirRejected ==
    (Executed /\ (\/ xin.working_dir.target # "dir"
                  \/ xin.working_dir.symlink
                  \/ xin.working_dir.dots = "segment")) =>
        (xout.raised # Ok /\ ~Spawned)

\* The same for the directories that are missing or not directories.
C27_MissingOrFileRejected ==
    (Executed /\ xin.working_dir.target # "dir") =>
        (xout.raised # Ok /\ ~Spawned)

RanProcess == pin # <<>> /\ pin.f = "run" /\ pout # <<>>
ExitedZero(p, captured) ==
    p.started /\ ~(captured /\ p.timeout) /\ p.returncode = 0

\* C28: in both modes the result of execute has success = true exactly when
\* the process exited with code 0; in captured mode a timeout or a failure
\* to run the process gives success = false, returncode -1 and no stdout.
C28_SuccessIffExitZero ==
    RanProcess =>
        /\ pout.success <=> ExitedZero(pin.process, pin.capture_output)
        /\ (pin.capture_output /\ (pin.process.timeout \/ ~pin.process.started)) =>
               (~pout.success /\ pout.returncode = -1 /\ pout.stdout = <<>>)

C28_Witness ==
    /\ RanProcess /\ pin.capture_output
    /\ pin.process = [started |-> TRUE, timeout |-> TRUE, returncode |-> 0,
                      out |-> <<"o">>, err |-> <<>>]
    /\ pout = ExecResult(FALSE, "Command timed out", <<>>,
                         <<"Command timed out after 30 minutes">>, -1)

RanLayerCommand == pin # <<>> /\ pin.f = "layer" /\ pout # <<>>
ExitedNonZero(p) == p.started /\ p.returncode # 0
Printed(p) == p.out # <<>> \/ p.err # <<>>

\* C29: when the apply or destroy of a layer exits non-zero, the failed
\* result has a non-empty stdout or stderr whenever the process printed
\* anything.
C29_FailedResultCarriesOutput ==
    (RanLayerCommand /\ ExitedNonZero(pin.process)) =>
        /\ pout.failed /\ ~pout.result.success
        /\ Printed(pin.process) =>
               (pout.result.stdout # <<>> \/ pout.result.stderr # <<>>)

\* What does hold of the failed result.
C29_FailedResultIsFailure ==
    (RanLayerCommand /\ ExitedNonZero(pin.process)) =>
        (pout.failed /\ ~pout.result.success /\ pout.result.message = pin.message)

InBootstrap == op \in {"bootstrap", "legacy"}
ProbedPresent ==
    IF op = "legacy" THEN obs.backend = "exists"
    ELSE obs.bucket = "ok" /\ obs.table = "ok"

\* Before position k the backend layer's apply exited 0 and the layer
\* operation came back to the bootstrap.
BackendCompletedBefore(k) ==
    \E i, j \in 1..(k - 1) :
        /\ i < j
        /\ trace[i] = Event("tf", AWS_BACKEND, "apply", "ok")
        /\ trace[j].e = "tf" /\ trace[j].l = AWS_BACKEND /\ trace[j].a = "output"
        /\ IF op = "legacy" THEN trace[j].r = "json" ELSE trace[j].r # "raise"

\* C30: in a bootstrap (either implementation) every terraform command of
\* the iam layer comes after the bucket and the lock table were both probed
\* present, or after the backend layer's apply completed successfully, in
\* the same run.
C30_IamAfterBackend ==
    InBootstrap =>
        \A k \in CommandsOf(AWS_IAM) : ProbedPresent \/ BackendCompletedBefore(k)

C30_Witness ==
    /\ op = "bootstrap" /\ pc = "done" /\ result.success
    /\ obs.bucket = "ClientError"
    /\ CommandsOf(AWS_IAM) # {}
    /\ \A k \in CommandsOf(AWS_IAM) : BackendCompletedBefore(k)

ReadCommands == {"init", "init -upgrade=false", "state list"}
IamW == workspace_name(AWS_IAM)
ListDone == op = "list" /\ pc = "done"

\* The entries a finished list_resources must hold: the two probe entries,
\* then the iam state's addresses if state list exited 0.
MergedEntries ==
    _list_aws_backend_resources(obs.bucket, obs.table)
    \o (IF trace # <<>> /\ trace[Len(trace)] = Event("tf", AWS_IAM, "state list", "ok")
        THEN StateEntries(TfState(ws[IamW])) ELSE <<>>)

OnlyReadCommands ==
    \A i \in 1..Len(trace) :
        trace[i].e = "tf" => (trace[i].l = AWS_IAM /\ trace[i].a \in ReadCommands)

\* C31 as stated: list_resources runs only init and state list, and its
\* resources list is always the bucket entry, the lock-table entry and then
\* the iam state's addresses, with success true.
C31_ListAlwaysMerged ==
    op = "list" =>
        /\ OnlyReadCommands
        /\ pc = "done" => (result.success /\ resources = MergedEntries)

\* C31 amended: list_resources runs only init and state list; when it
\* succeeds the resources list is the two probe entries followed by the iam
\* state's addresses in order, and only the two probe entries when preparing
\* or reading the iam state failed; it fails, with no entries, exactly when
\* the identity call or a probe raised something other than ClientError.
C31_ListReadOnlyMerged ==
    op = "list" =>
        /\ OnlyReadCommands
        /\ pc = "done" =>
             IF IdentityFailed \/ obs.bucket = "Error" \/ obs.table = "Error"
             THEN ~result.success /\ resources = <<>>
             ELSE result.success /\ resources = MergedEntries

C31_Witness ==
    /\ ListDone /\ result.success
    /\ obs.bucket = "ok" /\ obs.table = "ok"
    /\ Len(resources) = 2 + Len(IamAddresses)
    /\ \A i \in 1..Len(IamAddresses) : resources[i + 2].name = IamAddresses[i]

\* The backend config that account id and region determine.
ConfigFor(account_id, region) ==
    [bucket |-> "constellaxion-tf-state-" \o account_id \o "-" \o region,
     region |-> region,
     dynamodb_table |-> "constellaxion-tf-state-" \o account_id \o "-" \o region \o "-locks"]

BootstrapSucceeded == op = "bootstrap" /\ pc = "done" /\ result.success

\* C32: every successful bootstrap returns the backend config that account
\* id and region determine, with the keys bucket, region and dynamodb_table
\* and without the iam state key, whatever workspaces it found on disk.
C32_BackendConfigDeterministic ==
    BootstrapSucceeded =>
        /\ result.backend_config = ConfigFor(ACCOUNT, REGION)
        /\ DOMAIN result.backend_config = {"bucket", "region", "dynamodb_table"}

\* A successful bootstrap over an iam workspace left by an earlier run for
\* which a full initialization was needed.
C32_Witness ==
    /\ BootstrapSucceeded
    /\ prep.before.exists /\ prep.needsFull
    /\ ~Called("apply_layer", AWS_BACKEND)
    /\ result.backend_config = backend_config

Decided == nin # <<>> /\ nout # <<>>

\* The backend file is as the config expects: absent for no config, and
\* for a config present with the generated content up to surrounding blanks.
BackendMatches(w, cfg) ==
    IF cfg = NoConfig THEN BACKEND_FILE \notin w.files
    ELSE /\ BACKEND_FILE \in w.files
         /\ _generate_backend_tf(cfg) # ValueError
         /\ Core(w.backend) = Core(_generate_backend_tf(cfg))

\* C33: for a valid workspace whose backend file matches,
\* _needs_full_initialization is false whether or not the workspace's .tf
\* files are those of the source bundle: a difference from the bundle is
\* never a reason for a full initialization.
C33_StaleFilesNeverForceFull ==
    (Decided /\ OtherwiseValid(nin.w) /\ BackendMatches(nin.w, nin.cfg)) =>
        ~nout.needs

C33_Witness ==
    /\ Decided /\ ~nout.needs
    /\ nin.w.files = {TF_CACHE, "main.tf", BACKEND_FILE}
    /\ ~CopiedFromBundle(nin.w)
    /\ nin.cfg = iam_backend_config
    /\ nin.w.backend = _generate_backend_tf(iam_backend_config)

\* C36: when no backend config is expected and the workspace holds a
\* _backend.tf, _needs_full_initialization is true, whatever else the
\* workspace holds; the clean workspace a full initialization then builds
\* for any layer has no _backend.tf.
C36_LeftoverBackendNeedsFull ==
    (Decided /\ nin.cfg = NoConfig /\ BACKEND_FILE \in nin.w.files) =>
        /\ nout.needs
        /\ \A layer \in TerraformLayer :
             BACKEND_FILE \notin _prepare_clean_workspace(layer, nin.cfg).files

C36_Witness ==
    /\ Decided /\ nout.needs /\ nin.cfg = NoConfig
    /\ nin.w.files = {TF_CACHE, "main.tf", "outputs.tf", BACKEND_FILE}
    /\ nin.w.backend = _generate_backend_tf(iam_backend_config)

DistinctDirectories ==
    \A l1, l2 \in TerraformLayer : l1 # l2 => workspace_name(l1) # workspace_name(l2)

InLayerOperation == InManager /\ lpc \notin {"none", "done"}

\* One step of the manager that changes the disk: a step of a layer
\* operation changes the workspace of its own layer only, any other step is
\* the cleanup of a destroy, which leaves no workspace.
FrameStep ==
    (InManager /\ ws' # ws) =>
        IF InLayerOperation
        THEN \A n \in Workspaces \ {W} : ws'[n] = ws[n]
        ELSE /\ op = "destroy" /\ pc = "d_backend"
             /\ \A n \in Workspaces : ~ws'[n].exists
             /\ trace' = Append(trace, Event("cleanup", "", "", ""))

\* C34: distinct layers have distinct workspace directories; preparation,
\* apply_layer and destroy_layer change files of their own layer's
\* workspace only; the one step that removes every workspace is cleanup().
C34_LayerOwnsWorkspace ==
    [][DistinctDirectories /\ FrameStep]_vars

\* The iam layer is being fully reinitialized while the backend layer's
\* workspace holds its cache and local state.
C34_Witness ==
    /\ op = "bootstrap" /\ call.layer = AWS_IAM /\ lpc = "init_full"
    /\ prep.before.exists
    /\ TF_CACHE \in ws[workspace_name(AWS_BACKEND)].files
    /\ ws[workspace_name(AWS_BACKEND)].tfstate # <<>>

\* The layer operation in progress has its workspace prepared: init has
\* succeeded and the operation is at one of the steps that follow it.
PrepareSucceeded ==
    /\ InManager
    /\ lpc \in {"write_vars", "list_state", "apply", "state_list", "output", "destroy"}

\* What _prepare_workspace_optimized decides for the same layer, the same
\* backend config and force_clean = False on the disk as it is now.
NextPrepareIsFull == _needs_full_initialization(ws[W], call.cfg)

\* Directory removals of a preparation that has taken the incremental path.
IncrementalWipes == IF prep.syncResult = "fail" THEN 1 ELSE 0

\* C37: once a prepare has succeeded, a prepare of the same layer with the
\* same backend config and without force_clean decides for the incremental
\* path; a preparation on the incremental path removes the directory only
\* when its sync init has failed.
C37_PrepareConverges ==
    /\ PrepareSucceeded => ~NextPrepareIsFull
    /\ (InManager /\ lpc # "none" /\ ~prep.needsFull) => prep.wipes = IncrementalWipes

\* A later operation prepares the iam layer again on a workspace that an
\* earlier full initialization left, and goes the incremental path.
C37_Witness ==
    /\ PrepareSucceeded /\ call.layer = AWS_IAM /\ call.cfg = iam_backend_config
    /\ ~prep.needsFull /\ prep.syncs = 1 /\ prep.wipes = 0
    /\ prep.before = [_prepare_clean_workspace(AWS_IAM, iam_backend_config)
                        EXCEPT !.files = @ \cup {TF_CACHE}]

\* The incremental path whose sync init failed and fell back to a wipe.
C37_WitnessFallback ==
    /\ PrepareSucceeded /\ ~prep.needsFull /\ prep.syncResult = "fail" /\ prep.wipes = 1

DestroyReportedSuccess == op = "destroy" /\ pc = "done" /\ result.success

BackendRemains == cloud.bucket /\ cloud.table

\* The backend layer's workspace, where its state was, has been removed or
\* reinitialized since the apply: the state file is gone.
BackendStateLost == ws[workspace_name(AWS_BACKEND)].tfstate = <<>>

\* C38: when the bucket and lock table were created by the backend layer,
\* a destroy that reports success has removed them; no destroy reports
\* success while they remain.
C38_SuccessfulDestroyRemovesBackend ==
    (DestroyReportedSuccess /\ applied) => ~BackendRemains

\* The same for the destroys whose backend layer ran to a successful
\* terraform destroy.
C38_DestroyedLayerRemovesBackend ==
    (DestroyReportedSuccess /\ applied /\ obs.backend_result = "ok") => ~BackendRemains

-----------------------------------------------------------------------------
(* Two invocations of apply_layer on the workspace of one layer            *)

\* Nothing in the manager takes a lock: two processes that call apply_layer
\* for the same layer work on the same directory, and their file system
\* calls and terraform runs interleave freely.
Invocations == {1, 2}

ConcOutcomes == {"ok", "fail", "raise"}

ConcStep(i, to, disk) ==
    conc' = [conc EXCEPT !.pcs[i] = to, !.w = disk]

InitConc ==
    /\ IdleManager /\ IdleExec /\ IdleNeeds /\ IdlePure /\ IdleBinary
    /\ \E layer \in TerraformLayer, found \in BOOLEAN :
        LET cfg == IF layer = AWS_BACKEND THEN NoConfig ELSE iam_backend_config
        IN  conc = [layer    |-> layer,
                    cfg      |-> cfg,
                    w        |-> IF found
                                 THEN [_prepare_clean_workspace(layer, cfg)
                                         EXCEPT !.files = @ \cup {TF_CACHE}]
                                 ELSE AbsentWs,
                    pcs      |-> [i \in Invocations |-> "prepare"],
                    var_file |-> [i \in Invocations |-> FALSE]]

\* _prepare_workspace_optimized: the decision and, for a full
\* initialization, _prepare_clean_workspace
ConcPrepare(i) ==
    /\ conc # <<>> /\ conc.pcs[i] = "prepare"
    /\ IF _needs_full_initialization(conc.w, conc.cfg)
       THEN ConcStep(i, "init_full", _prepare_clean_workspace(conc.layer, conc.cfg))
       ELSE ConcStep(i, "init_sync", conc.w)
    /\ UNCHANGED <<mgrVars, execVars, needVars, pureVars, binVars>>

\* terraform init of either path; a failed sync falls back to
\* _prepare_clean_workspace and a full init
ConcInit(i) ==
    /\ conc # <<>> /\ conc.pcs[i] \in {"init_full", "init_sync"}
    /\ \E o \in ConcOutcomes :
        CASE o = "ok" ->
                ConcStep(i, "write_vars", [conc.w EXCEPT !.files = @ \cup {TF_CACHE}])
          [] o = "fail" /\ conc.pcs[i] = "init_sync" ->
                ConcStep(i, "init_full", _prepare_clean_workspace(conc.layer, conc.cfg))
          [] OTHER ->
                ConcStep(i, "raised", conc.w)
    /\ UNCHANGED <<mgrVars, execVars, needVars, pureVars, binVars>>

\* with open(vars_file, 'w') as f: json.dump(variables, f)
ConcWriteVars(i) ==
    /\ conc # <<>> /\ conc.pcs[i] = "write_vars"
    /\ ConcStep(i, "spawn", WriteVarsFile(conc.w))
    /\ UNCHANGED <<mgrVars, execVars, needVars, pureVars, binVars>>

\* if vars_file.exists(): apply_cmd.extend(['-var-file', ...]); the executor
\* starts terraform apply in the workspace directory
ConcSpawnApply(i) ==
    /\ conc # <<>> /\ conc.pcs[i] = "spawn"
    /\ conc' = [conc EXCEPT !.pcs[i] = "applying",
                            !.var_file[i] = VARS_FILE \in conc.w.files]
    /\ UNCHANGED <<mgrVars, execVars, needVars, pureVars, binVars>>

\* Variant: the variables file is removed in the step that ends the apply.
ConcApplyExit_Unlink(i) ==
    /\ conc # <<>> /\ conc.pcs[i] = "applying"
    /\ ConcStep(i, "done", UnlinkVars(conc.w))
    /\ UNCHANGED <<mgrVars, execVars, needVars, pureVars, binVars>>

\* terraform apply exits; after a successful apply, terraform output -json
ConcApplyExit(i) ==
    /\ conc # <<>> /\ conc.pcs[i] = "applying"
    /\ ConcStep(i, "finally", conc.w)
    /\ UNCHANGED <<mgrVars, execVars, needVars, pureVars, binVars>>

\* finally: if vars_file.exists(): vars_file.unlink()
ConcFinally(i) ==
    /\ conc # <<>> /\ conc.pcs[i] = "finally"
    /\ ConcStep(i, "done", UnlinkVars(conc.w))
    /\ UNCHANGED <<mgrVars, execVars, needVars, pureVars, binVars>>

NextConc ==
    \/ \E i \in Invocations : ConcPrepare(i)
    \/ \E i \in Invocations : ConcInit(i)
    \/ \E i \in Invocations : ConcWriteVars(i)
    \/ \E i \in Invocations : ConcSpawnApply(i)
    \/ \E i \in Invocations : ConcApplyExit(i)
    \/ \E i \in Invocations : ConcFinally(i)

SpecConc == InitConc /\ [][NextConc]_vars

\* Invocation i has a terraform apply running in the workspace.
ConcApplying(i) == conc # <<>> /\ conc.pcs[i] = "applying"

\* The step takes the variables file or the .terraform cache away.
ConcRemoves ==
    /\ conc # <<>>
    /\ \/ VARS_FILE \in conc.w.files /\ VARS_FILE \notin conc'.w.files
       \/ TF_CACHE \in conc.w.files /\ TF_CACHE \notin conc'.w.files

\* The step is invocation j's full reinitialization or its cleanup of the
\* variables file.
ConcReinitOrCleanup(j) ==
    /\ conc.pcs[j] \in {"prepare", "init_sync", "finally"}
    /\ conc'.pcs[j] # conc.pcs[j]

\* C35: an invocation never removes the files of its own running apply;
\* with two invocations on one workspace the files of a running apply are
\* removed by the other invocation's full reinitialization or cleanup of
\* the variables file, and that interleaving is reachable.
C35_OnlyTheOtherInvocationRemoves ==
    [][\A i \in Invocations :
          (ConcApplying(i) /\ ConcRemoves) =>
              /\ conc'.pcs[i] = "applying"
              /\ \E j \in Invocations \ {i} : ConcReinitOrCleanup(j)]_vars

\* terraform apply was started with -var-file and is still running; the
\* other invocation has finished and its cleanup has removed the file.
C35_Witness ==
    \E i \in Invocations, j \in Invocations :
        /\ ConcApplying(i) /\ conc.var_file[i]
        /\ conc.pcs[j] = "done"
        /\ TF_CACHE \in conc.w.files /\ VARS_FILE \notin conc.w.files

\* terraform apply is still running in a directory that the other
\* invocation's full reinitialization has removed and created again.
C35_WitnessReinit ==
    \E i \in Invocations, j \in Invocations :
        /\ ConcApplying(i) /\ conc.var_file[i]
        /\ conc.pcs[j] = "init_full"
        /\ TF_CACHE \notin conc.w.files /\ VARS_FILE \notin conc.w.files

====
